---- MODULE Spec2Model ----
(***************************************************************************)
(* A model of the masking engine of filemask.py: the Line Masker           *)
(* (apply_masking_to_line), the anchor matcher, the single-line passes     *)
(* (one rule at a time and aggregated) and the block scanner in its        *)
(* buffered (apply_type2_masking) and streaming (stream_apply_rule) form.  *)
(*                                                                         *)
(* A text line is a sequence of one-character strings.  Character offsets  *)
(* are 0-based as in the source; TLA+ sequences are 1-based, so the        *)
(* character at offset i of line is line[i + 1].                           *)
(***************************************************************************)
EXTENDS Integers, Sequences, FiniteSets, TLC

\* ------------------------------------------------------------------ bounds
\* Longest line given to the Line Masker on its own.
MaxLen == 2
\* Longest range list given to the Line Masker on its own.
MaxRanges == 2
\* Most lines of a file given to the single-line passes.
MaxType1Lines == 2
\* Most lines of a file given to the block scanner.
MaxBlockLines == 5
\* Largest skipStart and skipEnd of a block rule.
MaxSkip == 1
\* Longest range string given to the range parser on its own.
MaxRangeString == 5
\* Longest anchor given to the anchor matcher on its own.
MaxAnchor == 3
\* Longest line given to the anchor matcher on its own.
MaxMatchLine == 2
\* Most rules given to group_type2_rules on its own.
MaxGroupRules == 3
\* Most lines of a file taken through all its passes.
MaxFileLines == 4
\* Most input files of one run.
MaxFiles == 3

\* ---------------------------------------------------------------- alphabet
\* Characters of the lines given to the Line Masker on its own.
Chars == {"a", "b", " ", "*"}

\* str.isspace() on one character.
IsSpace(c) == c \in {" ", "\t"}

\* Ranges as parse_char_ranges produces them: 0-based, inclusive, start <= end.
\* The last one reaches past the end of every line of the model.
RangeUniverse ==
    { [start |-> 0, end |-> 0], [start |-> 0, end |-> 1],
      [start |-> 1, end |-> 1], [start |-> 1, end |-> 2],
      [start |-> 2, end |-> 5] }

\* All sequences over S of length at most n.
SeqsUpTo(S, n) == UNION { [1..k -> S] : k \in 0..n }

\* All permutations of 1..n, as functions.
Perms(n) == { p \in [1..n -> 1..n] : \A i, j \in 1..n : p[i] = p[j] => i = j }

\* The sum of a sequence of numbers.
RECURSIVE SumSeq(_)
SumSeq(s) == IF s = << >> THEN 0 ELSE Head(s) + SumSeq(Tail(s))

VARIABLES
    scenario,       \* which part of the engine this behaviour exercises
    pc,             \* position of the exercised code
    MASK_MODE,      \* the module-level mode flag: "star" or "scramble"
    rng,            \* the order random.Random(seed).shuffle produces
    line,           \* Line Masker alone: the line argument
    ranges,         \* Line Masker alone: the ranges argument
    result,         \* Line Masker alone: the returned line
    count,          \* Line Masker alone: the returned masked count
    again,          \* Line Masker alone: the line returned for the result
    same,           \* Line Masker alone: the line returned by a repeated call
    inputLines,     \* the decoded lines of the input file
    rules,          \* single-line passes: the type1 rules of the configuration
    skipLines,      \* single-line passes: the configuration's skipLines
    ruleNo,         \* one by one: how many rules have been applied
    seqLines,       \* one by one: the lines, updated in place by each rule
    seqCount,       \* one by one: the sum of the counts the rules returned
    aggLines,       \* aggregated pass: new_lines
    aggCount,       \* aggregated pass: file_masked_count
    aggRanges,      \* aggregated pass: per line, total_ranges
    aggCalls,       \* aggregated pass: per line, the calls of the Line Masker
    blockRule,      \* block scanner: the (grouped) type2 rule
    bufLines,       \* buffered scanner: lines after apply_type2_masking
    bufCount,       \* buffered scanner: the returned count
    readPos,        \* streaming scanner: lines read so far
    state,          \* streaming scanner: state
    skip_counter,   \* streaming scanner: skip_counter
    relative_idx,   \* streaming scanner: relative_idx
    tail_buffer,    \* streaming scanner: tail_buffer, of [orig, masked]
    written,        \* streaming scanner: the lines written to dst_path
    masked_total,   \* streaming scanner: masked_total
    range_string,   \* range parser alone: the range_string argument
    parsed,         \* range parser alone: the returned ranges
    matchAnchor,    \* anchor matcher alone: the anchor_string argument
    matchIcase,     \* anchor matcher alone: the case_insensitive argument
    matchLine,      \* anchor matcher alone: the line searched
    matchFound,     \* anchor matcher alone: whether search found a match
    type2_rules,    \* block grouping alone: the rules given to group_type2_rules
    grouped_type2,  \* block grouping alone: the groups returned
    path,           \* one file: the code that processes it
    groupNo,        \* one file: how many block groups have been applied
    workLines,      \* one file: the lines the next pass reads
    file_masked_count, \* one file: file_masked_count
    passLog,        \* one file: the passes made, with what each read and wrote
    effective_mode, \* one run: effective_mode, "memory" or "stream"
    jobs,           \* one run: args.jobs
    progress,       \* one run: args.progress
    faults,         \* one run: per input file, the step of it that raises
    file_index,     \* one run: how many input files the loop of main has taken
    processed_files, \* one run: processed_files
    errors,         \* one run: errors, counted by the worker pool
    pooled,         \* one run: the files the worker pool has completed
    reports,        \* one run: per input file, the outcomes printed for it
    outputs,        \* one run: per input file, whether its output was written
    masked_counts,  \* one run: per input file, the count its passes return
    runs,           \* one run: per input file, how often its passes were started
    saves,          \* one run: per input file, how often its output was written
    grand_total_masked, \* one run: grand_total_masked
    masked_sum,     \* one run: masked_sum of the worker pool
    config          \* one run: what the load of the configuration found

lineVars == << line, ranges, result, count, again, same >>
type1Vars == << rules, skipLines, ruleNo, seqLines, seqCount,
                aggLines, aggCount, aggRanges, aggCalls >>
streamVars == << readPos, state, skip_counter, relative_idx, tail_buffer,
                 written, masked_total >>
blockVars == << blockRule, bufLines, bufCount, streamVars >>
parseVars == << range_string, parsed >>
matchVars == << matchAnchor, matchIcase, matchLine, matchFound >>
groupVars == << type2_rules, grouped_type2 >>
fileVars == << path, groupNo, workLines, file_masked_count, passLog >>
batchVars == << effective_mode, jobs, progress, faults, file_index,
                processed_files, errors, pooled, reports, outputs,
                masked_counts, runs, saves, grand_total_masked, masked_sum,
                config >>
partVars == << parseVars, matchVars, groupVars, fileVars, batchVars >>
vars == << scenario, pc, MASK_MODE, rng, lineVars, inputLines, type1Vars,
           blockVars, partVars >>

\* ------------------------------------------------------------- Line Masker

\* Whether offset char_index falls inside at least one range (lines 153-157).
InRange(rs, char_index) ==
    \E k \in 1..Len(rs) : rs[k].start <= char_index /\ char_index <= rs[k].end

\* A mutant: the non-whitespace test of line 158 is left out.
MaskedIndicesNoSpaceTest(ln, rs) ==
    SelectSeq([i \in 1..Len(ln) |-> i - 1], LAMBDA ci : InRange(rs, ci))

\* masked_indices (lines 149-159): the offsets inside the line that are in a
\* range and hold a non-whitespace character, in ascending order.
MaskedIndices(ln, rs) ==
    SelectSeq([i \in 1..Len(ln) |-> i - 1],
              LAMBDA ci : InRange(rs, ci) /\ ~IsSpace(ln[ci + 1]))

\* rng.shuffle(segment_chars) (lines 171-173): the generator is seeded from
\* the segment, so the result is a rearrangement of the segment that depends
\* on nothing else.  rng is a permutation of 1..N; the segment of length
\* k <= N is rearranged by the order of rng[1..k].
ShuffleRank(i, k) == Cardinality({ j \in 1..k : rng[j] <= rng[i] })

\* A mutant: one generator is shared by all calls, so the order a call gets
\* depends on the calls made before it.
ShuffleSharedGenerator(seg) ==
    IF pc = "ready" THEN [i \in 1..Len(seg) |-> seg[ShuffleRank(i, Len(seg))]]
    ELSE seg

Shuffle(seg) == [i \in 1..Len(seg) |-> seg[ShuffleRank(i, Len(seg))]]

\* The position (1-based) of offset ci in the sequence of masked offsets.
IndexOf(mi, ci) == CHOOSE idx \in 1..Len(mi) : mi[idx] = ci

\* A mutant: every masked slot receives the first character of the segment.
ScrambleCharsFirstOnly(ln, mi) ==
    [i \in 1..Len(ln) |->
        IF \E idx \in 1..Len(mi) : mi[idx] = i - 1 THEN ln[mi[1] + 1] ELSE ln[i]]

\* Scramble branch (lines 165-175): the characters at the masked offsets are
\* shuffled and written back into the same offsets in order.
ScrambleChars(ln, mi) ==
    LET segment_chars == [idx \in 1..Len(mi) |-> ln[mi[idx] + 1]]
        shuffled == Shuffle(segment_chars)
    IN  [i \in 1..Len(ln) |->
            IF \E idx \in 1..Len(mi) : mi[idx] = i - 1
            THEN shuffled[IndexOf(mi, i - 1)]
            ELSE ln[i]]

\* A mutant: the loop of line 177 stops one short of the last masked offset.
StarCharsOffByOne(ln, mi) ==
    [i \in 1..Len(ln) |->
        IF \E idx \in 1..(Len(mi) - 1) : mi[idx] = i - 1 THEN "*" ELSE ln[i]]

\* Star branch (lines 176-178): every masked offset is overwritten with '*'.
StarChars(ln, mi) ==
    [i \in 1..Len(ln) |->
        IF \E idx \in 1..Len(mi) : mi[idx] = i - 1 THEN "*" ELSE ln[i]]

\* A mutant: the count is taken per range, so an offset that two ranges cover
\* is counted twice.
MaskedCountPerRange(ln, rs, mi) ==
    SumSeq([k \in 1..Len(rs) |-> Len(MaskedIndices(ln, << rs[k] >>))])

\* len(masked_indices), the count of line 180.
MaskedCount(ln, rs, mi) == Len(mi)

\* A mutant: the test of line 165 is inverted.
ApplyMaskingToLineModeInverted(ln, rs) ==
    LET mi == MaskedIndices(ln, rs)
    IN  IF mi = << >> THEN << ln, 0 >>
        ELSE IF MASK_MODE # "scramble"
             THEN << ScrambleChars(ln, mi), MaskedCount(ln, rs, mi) >>
             ELSE << StarChars(ln, mi), MaskedCount(ln, rs, mi) >>

\* apply_masking_to_line (lines 143-180): << new line, masked count >>.
ApplyMaskingToLine(ln, rs) ==
    LET mi == MaskedIndices(ln, rs)
    IN  IF mi = << >> THEN << ln, 0 >>
        ELSE IF MASK_MODE = "scramble"
             THEN << ScrambleChars(ln, mi), MaskedCount(ln, rs, mi) >>
             ELSE << StarChars(ln, mi), MaskedCount(ln, rs, mi) >>

\* ------------------------------------------------------------ Range Parser

\* A position string is modelled after the split on ',' and the strip of line
\* 27, as its sequence of numeric tokens: << N >> for "N", << N, M >> for "N-M".
\* parse_char_ranges (lines 19-46): a token is kept when start >= 1 and
\* end >= start, and is converted to 0-based offsets.
\* A mutant: the first token that fails the test of line 43 ends the loop.
RECURSIVE ParseCharRangesStopsAtInvalid(_)
ParseCharRangesStopsAtInvalid(tokens) ==
    IF tokens = << >> THEN << >>
    ELSE LET part == Head(tokens)
             start_char == part[1]
             end_char == IF Len(part) = 2 THEN part[2] ELSE part[1]
         IN  IF start_char >= 1 /\ end_char >= start_char
             THEN << [start |-> start_char - 1, end |-> end_char - 1] >>
                      \o ParseCharRangesStopsAtInvalid(Tail(tokens))
             ELSE << >>

RECURSIVE ParseCharRanges(_)
ParseCharRanges(tokens) ==
    IF tokens = << >> THEN << >>
    ELSE LET part == Head(tokens)
             start_char == part[1]
             end_char == IF Len(part) = 2 THEN part[2] ELSE part[1]
         IN  (IF start_char >= 1 /\ end_char >= start_char
              THEN << [start |-> start_char - 1, end |-> end_char - 1] >>
              ELSE << >>) \o ParseCharRanges(Tail(tokens))

\* ---------------------------------------------------------- Anchor Matcher

\* The lower-case form of a character, for matching under re.IGNORECASE.
Lower(c) ==
    CASE c = "A" -> "a"
      [] c = "B" -> "b"
      [] c = "S" -> "s"
      [] c = "E" -> "e"
      [] OTHER -> c

\* str.split(sep) on a sequence of characters.
RECURSIVE SplitOn(_, _)
SplitOn(s, sep) ==
    IF \A i \in 1..Len(s) : s[i] # sep THEN << s >>
    ELSE LET k == CHOOSE i \in 1..Len(s) :
                      s[i] = sep /\ \A j \in 1..(i - 1) : s[j] # sep
         IN  << SubSeq(s, 1, k - 1) >> \o SplitOn(SubSeq(s, k + 1, Len(s)), sep)

\* str.strip() on a sequence of characters.
RECURSIVE Strip(_)
Strip(s) ==
    IF s = << >> THEN s
    ELSE IF IsSpace(Head(s)) THEN Strip(Tail(s))
    ELSE IF IsSpace(s[Len(s)]) THEN Strip(SubSeq(s, 1, Len(s) - 1))
    ELSE s

\* int(text) for a text without sign (the texts of the parser come from a
\* split on '-'): blanks around the digits are ignored, the digits are read
\* in base ten.  ValueError is modelled as -1, a value int() cannot give for
\* such a text.
RECURSIVE DecimalValue(_)
DecimalValue(digits) ==
    IF digits = << >> THEN 0
    ELSE 10 * DecimalValue(SubSeq(digits, 1, Len(digits) - 1))
         + (CASE digits[Len(digits)] = "0" -> 0
              [] digits[Len(digits)] = "1" -> 1
              [] digits[Len(digits)] = "2" -> 2
              [] digits[Len(digits)] = "3" -> 3)
ToInt(text) ==
    LET t == Strip(text)
    IN  IF t # << >> /\ \A i \in 1..Len(t) : t[i] \in {"0", "1", "2", "3"}
        THEN DecimalValue(t) ELSE -1

\* Lines 30-41 for one part: the numeric token << N >> or << N, M >>, or
\* << >> when int() or the unpacking of the split raises ValueError and the
\* part is skipped.
TokenOf(part) ==
    IF \E i \in 1..Len(part) : part[i] = "-"
    THEN LET pieces == SplitOn(part, "-")
         IN  IF Len(pieces) = 2 /\ ToInt(pieces[1]) # -1 /\ ToInt(pieces[2]) # -1
             THEN << ToInt(pieces[1]), ToInt(pieces[2]) >>
             ELSE << >>
    ELSE IF ToInt(part) # -1 THEN << ToInt(part) >> ELSE << >>

\* parse_char_ranges (lines 19-46) on the characters of range_string: the
\* split on ',', the strip, the parts that are not empty (line 27), the
\* parts that int() reads, then the test and the conversion of line 43.
ParseRangeString(chars) ==
    IF chars = << >> THEN << >>
    ELSE LET pieces == SplitOn(chars, ",")
             parts == SelectSeq([k \in 1..Len(pieces) |-> Strip(pieces[k])],
                                LAMBDA q : q # << >>)
             tokens == SelectSeq([k \in 1..Len(parts) |-> TokenOf(parts[k])],
                                 LAMBDA t : t # << >>)
         IN  ParseCharRanges(tokens)

\* Whether the text t is matched in full by body.  With wild, the body is
\* escaped (re.escape) and then every '\%' and every '%' is replaced by '.*'
\* (line 78): '%' stands for '.*', and a backslash before '%', escaped to two
\* backslashes of which the replacement takes the second, leaves '\.*', any
\* number of dots; every other character is literal.
RECURSIVE BodyMatches(_, _, _, _)
BodyMatches(body, wild, icase, t) ==
    IF body = << >> THEN t = << >>
    ELSE IF wild /\ Len(body) >= 2 /\ body[1] = "\\" /\ body[2] = "%"
         THEN \E k \in 0..Len(t) :
                  /\ \A j \in 1..k : t[j] = "."
                  /\ BodyMatches(SubSeq(body, 3, Len(body)), wild, icase,
                                 SubSeq(t, k + 1, Len(t)))
    ELSE IF wild /\ Head(body) = "%"
         THEN \E k \in 0..Len(t) :
                  BodyMatches(Tail(body), wild, icase, SubSeq(t, k + 1, Len(t)))
         ELSE /\ t # << >>
              /\ IF icase THEN Lower(Head(body)) = Lower(Head(t))
                          ELSE Head(body) = Head(t)
              /\ BodyMatches(Tail(body), wild, icase, Tail(t))

\* One alternative of a pattern: a body, whether '%' is the wildcard in it,
\* and whether it carries '^' and '$'.
\* The offsets at which a match of the alternative can begin in ln.
MatchStarts(part, icase, ln) ==
    { p \in 0..Len(ln) :
        /\ part.start => p = 0
        /\ \E q \in p..Len(ln) :
              /\ part.end => q = Len(ln)
              /\ BodyMatches(part.body, part.wild, icase, SubSeq(ln, p + 1, q)) }

\* A mutant: no alternative is anchored with '^' and '$'.
WildcardPartUnanchored(anchor) ==
    [body |-> anchor, wild |-> TRUE, start |-> FALSE, end |-> FALSE]

\* Lines 74-82: one wildcard alternative becomes an escaped pattern with '%'
\* as '.*', '^' unless it began with '%' and '$' unless it ended with '%'.
WildcardPart(anchor) ==
    [body |-> anchor, wild |-> TRUE,
     start |-> ~(anchor # << >> /\ Head(anchor) = "%"),
     end |-> ~(anchor # << >> /\ anchor[Len(anchor)] = "%")]

\* A raw pattern, in the part of the dialect the model covers: literal
\* characters, '|' between alternatives, and '(' which, never closed in the
\* patterns of the model, makes re.compile raise re.error.
RawCompiles(pattern) == \A i \in 1..Len(pattern) : pattern[i] # "("
RawParts(pattern) ==
    LET alts == SplitOn(pattern, "|")
    IN  [k \in 1..Len(alts) |->
            [body |-> alts[k], wild |-> FALSE, start |-> FALSE, end |-> FALSE]]

\* re.compile(r'a^$a'): the pattern that matches nothing.
NeverRegex(case_insensitive) == [alts |-> << >>, icase |-> case_insensitive]

\* create_anchor_regex (lines 48-86).
CreateAnchorRegex(anchor_string, use_raw_regex, case_insensitive) ==
    IF anchor_string = << >> THEN NeverRegex(case_insensitive)
    ELSE IF use_raw_regex
         THEN IF RawCompiles(anchor_string)
              THEN [alts |-> RawParts(anchor_string), icase |-> case_insensitive]
              ELSE NeverRegex(case_insensitive)
         ELSE LET anchors == SelectSeq(SplitOn(anchor_string, "|"),
                                       LAMBDA s : s # << >>)
              IN  IF anchors = << >> THEN NeverRegex(case_insensitive)
                  ELSE [alts |-> [k \in 1..Len(anchors) |-> WildcardPart(anchors[k])],
                        icase |-> case_insensitive]

\* regex.search(line) is not None.
Search(regex, ln) ==
    \E k \in 1..Len(regex.alts) : MatchStarts(regex.alts[k], regex.icase, ln) # {}

\* ------------------------------------------------- single-line rules alone

\* apply_type1_masking (lines 186-219) on one line: << new line, count >>.
\* The line is replaced only when something was masked (line 211), which is
\* also the only case in which the Line Masker returns another line.
ApplyType1ToLine(ln, rule) ==
    LET rs == ParseCharRanges(rule.positionsString)
        anchor_regex == CreateAnchorRegex(rule.anchor, rule.useRawRegex,
                                          ~rule.caseSensitive)
    IN  IF Search(anchor_regex, ln) THEN ApplyMaskingToLine(ln, rs)
        ELSE << ln, 0 >>

\* apply_type1_masking over all lines: << lines, total_masked_count >>.
ApplyType1Masking(lns, rule) ==
    << [i \in 1..Len(lns) |-> ApplyType1ToLine(lns[i], rule)[1]],
       SumSeq([i \in 1..Len(lns) |-> ApplyType1ToLine(lns[i], rule)[2]]) >>

\* ------------------------------------------- Rule Aggregator, single-line

\* (anchor or '').strip() == ''  (line 122).
IsBlank(anchor) == \A i \in 1..Len(anchor) : IsSpace(anchor[i])

\* anchor_to_pattern_string (lines 88-103): the fragment for one rule.  A raw
\* anchor is taken as it is; a wildcard anchor is escaped as a whole, '|'
\* included, so that it is one alternative.  valid: whether the fragment
\* compiles.
AnchorToPatternString(anchor_string, use_raw_regex, case_sensitive) ==
    IF use_raw_regex
    THEN [alts |-> RawParts(anchor_string), valid |-> RawCompiles(anchor_string),
          icase |-> ~case_sensitive]
    ELSE [alts |-> << WildcardPart(anchor_string) >>, valid |-> TRUE,
          icase |-> ~case_sensitive]

\* The ranges of the rules at the indices idxs, concatenated in order.
RECURSIVE ExtendAll(_, _)
ExtendAll(type1_rules, idxs) ==
    IF idxs = << >> THEN << >>
    ELSE ParseCharRanges(type1_rules[Head(idxs)].positionsString)
             \o ExtendAll(type1_rules, Tail(idxs))

\* build_combined_type1_regex (lines 105-141).  Each bucket is the sequence of
\* its named groups in rule order; a group carries its name (the rule's
\* 1-based index, "R<idx>"), its fragment and the ranges its name maps to.
\* A bucket that the source leaves out of the result is an empty sequence.
BuildCombinedType1Regex(type1_rules) ==
    LET idxs == [i \in 1..Len(type1_rules) |-> i]
        hasRanges(i) == ParseCharRanges(type1_rules[i].positionsString) # << >>
        frag(i) == AnchorToPatternString(type1_rules[i].anchor,
                                         type1_rules[i].useRawRegex,
                                         type1_rules[i].caseSensitive)
        group(i) == [gname |-> i, alts |-> frag(i).alts, valid |-> frag(i).valid,
                     ranges |-> ParseCharRanges(type1_rules[i].positionsString)]
        anchored(i) == hasRanges(i) /\ ~IsBlank(type1_rules[i].anchor)
        icaseIdx == SelectSeq(idxs, LAMBDA i : anchored(i) /\ frag(i).icase)
        caseIdx == SelectSeq(idxs, LAMBDA i : anchored(i) /\ ~frag(i).icase)
        alwaysIdx == SelectSeq(idxs, LAMBDA i :
                         hasRanges(i) /\ IsBlank(type1_rules[i].anchor))
    IN  [icase |-> [k \in 1..Len(icaseIdx) |-> group(icaseIdx[k])],
         case |-> [k \in 1..Len(caseIdx) |-> group(caseIdx[k])],
         always |-> ExtendAll(type1_rules, alwaysIdx)]

\* Whether re.compile of both combined patterns succeeds (lines 136, 138).
CombinedCompiles(combined) ==
    /\ \A k \in 1..Len(combined.icase) : combined.icase[k].valid
    /\ \A k \in 1..Len(combined.case) : combined.case[k].valid

\* The offsets at which a match of a named group can begin.
GroupStarts(group, icase, ln) ==
    UNION { MatchStarts(group.alts[a], icase, ln) : a \in 1..Len(group.alts) }

\* A mutant: every group that can match the line contributes its ranges.
MatchedGroupsAll(groups, icase, ln) ==
    SelectSeq(groups, LAMBDA g : GroupStarts(g, icase, ln) # {})

\* rx.search(line) on the pattern (?P<R1>..)|(?P<R2>..)|.. and the groups g
\* with m.group(g) is not None (lines 966-970): the match begins at the
\* leftmost offset at which some group matches, and of the groups that match
\* there the first in the pattern is taken; no other group takes part in the
\* match.
MatchedGroups(groups, icase, ln) ==
    LET starts == UNION { GroupStarts(groups[k], icase, ln) : k \in 1..Len(groups) }
    IN  IF starts = {} THEN << >>
        ELSE LET p == CHOOSE x \in starts : \A y \in starts : x <= y
                 k == CHOOSE x \in 1..Len(groups) :
                          /\ p \in GroupStarts(groups[x], icase, ln)
                          /\ \A y \in 1..(x - 1) :
                                p \notin GroupStarts(groups[y], icase, ln)
             IN  << groups[k] >>

\* The ranges of a sequence of groups, concatenated in order.
RECURSIVE GroupRanges(_)
GroupRanges(gs) ==
    IF gs = << >> THEN << >> ELSE Head(gs).ranges \o GroupRanges(Tail(gs))

\* total_ranges of the aggregated pass for the line at line_index (lines
\* 1383-1406, the same in the streaming pass, lines 956-977): nothing for a
\* header line, else the always-apply ranges, then the ranges of the matched
\* groups of the two buckets.
TotalRanges(combined, ln, line_index, skip_lines_global) ==
    IF line_index < skip_lines_global THEN << >>
    ELSE combined.always
           \o GroupRanges(MatchedGroups(combined.icase, TRUE, ln))
           \o GroupRanges(MatchedGroups(combined.case, FALSE, ln))

\* One line of the aggregated pass (lines 1407-1412): << new line, count,
\* calls of the Line Masker >>.
AggregatedLine(combined, ln, line_index, skip_lines_global) ==
    LET total_ranges == TotalRanges(combined, ln, line_index, skip_lines_global)
    IN  IF total_ranges # << >>
        THEN << ApplyMaskingToLine(ln, total_ranges)[1],
                ApplyMaskingToLine(ln, total_ranges)[2], 1 >>
        ELSE << ln, 0, 0 >>

\* ------------------------------------------------ Block Scanner, buffered

\* multi_line_positions (lines 237-238): positionsString is modelled after
\* the split on '&&', as the sequence of its segments.
MultiLinePositions(rule) ==
    [k \in 1..Len(rule.positionsString) |-> ParseCharRanges(rule.positionsString[k])]

\* The first index in from..(Len(lns) - 1) whose line the pattern matches, or
\* -1 (the for loops of lines 254-257 and 266-269).
FirstMatch(regex, lns, from) ==
    LET hits == { i \in from..(Len(lns) - 1) : Search(regex, lns[i + 1]) }
    IN  IF hits = {} THEN -1 ELSE CHOOSE i \in hits : \A j \in hits : i <= j

\* a % n as Python computes it for n other than 0: the result has the sign
\* of n.
PyMod(a, n) == IF n > 0 THEN a % n ELSE -((-a) % (-n))

\* seq[i] as Python indexes a list: a negative index counts from the end.
PyIndex(seq, i) == IF i >= 0 THEN seq[i + 1] ELSE seq[Len(seq) + i + 1]

\* Step 4 of the loop (lines 283-296) for the line at index i of a record
\* whose body is mask_start_line..mask_end_line: << new line, count >>.
MaskBodyLine(lns, rule, i, mask_start_line, mask_end_line) ==
    IF mask_start_line <= i /\ i <= mask_end_line /\ 0 <= i /\ i < Len(lns)
    THEN LET multi_line_positions == MultiLinePositions(rule)
             relative_line_index == PyMod(i - mask_start_line, rule.linesPerRecord)
             positions_for_this_line ==
                 IF relative_line_index < Len(multi_line_positions)
                 THEN PyIndex(multi_line_positions, relative_line_index)
                 ELSE << >>
         IN  IF positions_for_this_line # << >>
             THEN ApplyMaskingToLine(lns[i + 1], positions_for_this_line)
             ELSE << lns[i + 1], 0 >>
    ELSE << lns[i + 1], 0 >>

\* The while loop of apply_type2_masking (lines 249-302), from
\* current_line_index on: << lines, total_masked_count >>.
RECURSIVE Type2Loop(_, _, _, _)
Type2Loop(lns, rule, current_line_index, total_masked_count) ==
    LET start_regex == CreateAnchorRegex(rule.anchorStart, rule.useRawRegexStart,
                                         ~rule.caseSensitive)
        end_regex == CreateAnchorRegex(rule.anchorEnd, rule.useRawRegexEnd,
                                       ~rule.caseSensitive)
        start_line_index == FirstMatch(start_regex, lns, current_line_index)
        end_line_index == FirstMatch(end_regex, lns, start_line_index + 1)
        mask_start_line == start_line_index + rule.skipStart + 1
        mask_end_line == end_line_index - rule.skipEnd - 1
        body(i) == MaskBodyLine(lns, rule, i - 1, mask_start_line, mask_end_line)
    IN  IF current_line_index >= Len(lns) THEN << lns, total_masked_count >>
        ELSE IF start_line_index = -1 THEN << lns, total_masked_count >>
        ELSE IF end_line_index = -1 \/ end_line_index <= start_line_index
             THEN << lns, total_masked_count >>
        ELSE Type2Loop([i \in 1..Len(lns) |-> body(i)[1]], rule,
                       end_line_index + 1,
                       total_masked_count
                           + SumSeq([i \in 1..Len(lns) |-> body(i)[2]]))

\* apply_type2_masking (lines 221-304): << lines, total_masked_count >>.
ApplyType2Masking(lns, rule) == Type2Loop(lns, rule, 0, 0)

\* Whether the loop reaches step 4 for some line, from current_line_index
\* on.  Until it does no line has been changed, so the records are those of
\* the lines given.
RECURSIVE ReachesBodyLine(_, _, _)
ReachesBodyLine(lns, rule, current_line_index) ==
    LET start_regex == CreateAnchorRegex(rule.anchorStart, rule.useRawRegexStart,
                                         ~rule.caseSensitive)
        end_regex == CreateAnchorRegex(rule.anchorEnd, rule.useRawRegexEnd,
                                       ~rule.caseSensitive)
        start_line_index == FirstMatch(start_regex, lns, current_line_index)
        end_line_index == FirstMatch(end_regex, lns, start_line_index + 1)
        mask_start_line == start_line_index + rule.skipStart + 1
        mask_end_line == end_line_index - rule.skipEnd - 1
    IN  IF current_line_index >= Len(lns) \/ start_line_index = -1
           \/ end_line_index = -1
        THEN FALSE
        ELSE \/ \E i \in mask_start_line..mask_end_line : 0 <= i /\ i < Len(lns)
             \/ ReachesBodyLine(lns, rule, end_line_index + 1)

\* Whether apply_type2_masking raises: with linesPerRecord 0 the modulo of
\* line 286 is a division by zero at the first body line.
Type2Raises(lns, rule) == rule.linesPerRecord = 0 /\ ReachesBodyLine(lns, rule, 0)

\* ----------------------------------------------- Block Scanner, streaming

\* The scanner state of stream_apply_rule before the first line (lines
\* 840-845).
StreamStart ==
    [state |-> "outside", skip_counter |-> 0, relative_idx |-> 0,
     tail_buffer |-> << >>, written |-> << >>, masked_total |-> 0]

\* lines_per_record of line 830: int(...) or 1.
StreamLinesPerRecord(rule) == IF rule.linesPerRecord = 0 THEN 1 ELSE rule.linesPerRecord

\* The body of the loop of stream_apply_rule for one line (lines 851-888).
StreamStep(st, ln, rule) ==
    LET start_regex == CreateAnchorRegex(rule.anchorStart, rule.useRawRegexStart,
                                         ~rule.caseSensitive)
        end_regex == CreateAnchorRegex(rule.anchorEnd, rule.useRawRegexEnd,
                                       ~rule.caseSensitive)
        multi_line_positions == MultiLinePositions(rule)
        positions_for_line ==
            PyIndex(multi_line_positions,
                    PyMod(st.relative_idx, StreamLinesPerRecord(rule)))
        masked == IF positions_for_line # << >>
                  THEN ApplyMaskingToLine(ln, positions_for_line)
                  ELSE << ln, 0 >>
        appended == Append(st.tail_buffer, [orig |-> ln, masked |-> masked[1]])
    IN  IF st.state = "outside"
        THEN [st EXCEPT !.written = Append(@, ln),
                        !.state = IF Search(start_regex, ln) THEN "in_skip_start"
                                  ELSE @,
                        !.skip_counter = IF Search(start_regex, ln) THEN 0 ELSE @]
        ELSE IF st.state = "in_skip_start"
        THEN [st EXCEPT !.skip_counter = @ + 1,
                        !.written = Append(@, ln),
                        !.state = IF st.skip_counter + 1 >= rule.skipStart
                                  THEN "in_mask" ELSE @,
                        !.relative_idx = IF st.skip_counter + 1 >= rule.skipStart
                                         THEN 0 ELSE @]
        ELSE IF Search(end_regex, ln)
        THEN [st EXCEPT !.written = @ \o [k \in 1..Len(st.tail_buffer) |->
                                              st.tail_buffer[k].orig]
                                      \o << ln >>,
                        !.tail_buffer = << >>,
                        !.state = "outside"]
        ELSE [st EXCEPT !.masked_total = @ + masked[2],
                        !.written = IF Len(appended) > rule.skipEnd
                                    THEN Append(@, Head(appended).masked) ELSE @,
                        !.tail_buffer = IF Len(appended) > rule.skipEnd
                                        THEN Tail(appended) ELSE appended,
                        !.relative_idx = @ + 1]

\* The scanner state after the lines lns.
RECURSIVE StreamAfter(_, _)
StreamAfter(lns, rule) ==
    IF lns = << >> THEN StreamStart
    ELSE StreamStep(StreamAfter(SubSeq(lns, 1, Len(lns) - 1), rule),
                    lns[Len(lns)], rule)

\* stream_apply_rule for a type2 rule (lines 825-896), the flush at end of
\* input included: << lines written, masked_total >>.
StreamApplyRule(lns, rule) ==
    LET st == StreamAfter(lns, rule)
    IN  << IF st.state = "in_mask"
           THEN st.written \o [k \in 1..Len(st.tail_buffer) |->
                                  st.tail_buffer[k].masked]
           ELSE st.written,
           st.masked_total >>

\* ------------------------------------------------ Rule Aggregator, block

\* The grouping key of a type2 rule (lines 315-323).  The records of the
\* model carry the two resolved raw flags; linesPerRecord 0 becomes 1
\* ("or 1"), a negative linesPerRecord stays as it is.
Type2Key(r) ==
    << r.anchorStart, r.anchorEnd, r.skipStart, r.skipEnd,
       IF r.linesPerRecord = 0 THEN 1 ELSE r.linesPerRecord,
       r.caseSensitive, r.useRawRegexStart, r.useRawRegexEnd >>

\* A mutant: the keys are kept in the order of their last occurrence.
RECURSIVE GroupKeysLastOccurrence(_)
GroupKeysLastOccurrence(rs) ==
    IF rs = << >> THEN << >>
    ELSE LET rest == GroupKeysLastOccurrence(Tail(rs))
         IN  IF Head(rs).type # "type2"
                \/ \E k \in 1..Len(rest) : rest[k] = Type2Key(Head(rs))
             THEN rest
             ELSE << Type2Key(Head(rs)) >> \o rest

\* The keys of the dict groups in insertion order (lines 311-324): the keys
\* of the type2 rules, each at the place of its first occurrence.
RECURSIVE GroupKeys(_)
GroupKeys(rs) ==
    IF rs = << >> THEN << >>
    ELSE LET rest == GroupKeys(SubSeq(rs, 1, Len(rs) - 1))
             last == rs[Len(rs)]
         IN  IF last.type # "type2"
                \/ \E k \in 1..Len(rest) : rest[k] = Type2Key(last)
             THEN rest
             ELSE Append(rest, Type2Key(last))

\* per_index_ranges[idx] (lines 334-340): the ranges of segment idx of every
\* rule of the list, in rule order; a rule without that segment gives none.
RECURSIVE PerIndexRanges(_, _)
PerIndexRanges(rule_list, idx) ==
    IF rule_list = << >> THEN << >>
    ELSE (IF idx < Len(Head(rule_list).positionsString)
          THEN ParseCharRanges(Head(rule_list).positionsString[idx + 1])
          ELSE << >>) \o PerIndexRanges(Tail(rule_list), idx)

\* idx_ranges.sort(key=(start, end)) (line 348).
RangeBefore(a, b) == a.start < b.start \/ (a.start = b.start /\ a.end <= b.end)
RECURSIVE SortRanges(_)
SortRanges(rs) ==
    IF rs = << >> THEN << >>
    ELSE LET k == CHOOSE i \in 1..Len(rs) :
                      /\ \A j \in 1..Len(rs) : RangeBefore(rs[i], rs[j])
                      /\ \A j \in 1..(i - 1) : ~RangeBefore(rs[j], rs[i])
         IN  << rs[k] >>
               \o SortRanges(SubSeq(rs, 1, k - 1) \o SubSeq(rs, k + 1, Len(rs)))

\* The merge loop of lines 350-357 over sorted ranges, cur being the range
\* under construction.
RECURSIVE MergeRanges(_, _)
MergeRanges(cur, rest) ==
    IF rest = << >> THEN << cur >>
    ELSE IF Head(rest).start <= cur.end + 1
         THEN MergeRanges(
                  [cur EXCEPT !.end = IF cur.end >= Head(rest).end THEN cur.end
                                      ELSE Head(rest).end], Tail(rest))
         ELSE << cur >> \o MergeRanges(Head(rest), Tail(rest))

\* merged (lines 343-357) for one relative index.
MergedRanges(idx_ranges) ==
    IF idx_ranges = << >> THEN << >>
    ELSE MergeRanges(Head(SortRanges(idx_ranges)), Tail(SortRanges(idx_ranges)))

\* The segment written for the merged ranges (line 359), as its tokens:
\* "start+1-end+1", or "start+1" for a range of one position.
FormatSegment(merged) ==
    [k \in 1..Len(merged) |->
        IF merged[k].start # merged[k].end
        THEN << merged[k].start + 1, merged[k].end + 1 >>
        ELSE << merged[k].start + 1 >>]

\* One group (lines 326-362): the first rule of the list with the merged
\* segments for the relative indices below lines_per_record (none when it is
\* negative).  The segments are those a split on '&&' of the joined string
\* gives back: the join of no segment is the empty string, one empty
\* segment.
GroupOf(rs, key) ==
    LET rule_list == SelectSeq(rs, LAMBDA r : r.type = "type2" /\ Type2Key(r) = key)
        lines_per_record == key[5]
        merged_parts ==
            [i \in 1..(IF lines_per_record > 0 THEN lines_per_record ELSE 0) |->
                FormatSegment(MergedRanges(PerIndexRanges(rule_list, i - 1)))]
    IN  [rule_list[1] EXCEPT
            !.positionsString = IF merged_parts = << >> THEN << << >> >>
                                ELSE merged_parts]

\* group_type2_rules (lines 306-365).
GroupType2Rules(rs) ==
    [k \in 1..Len(GroupKeys(rs)) |-> GroupOf(rs, GroupKeys(rs)[k])]

\* ------------------------------------------------- the passes over a file

\* total_ranges in _process_file_core (lines 1141-1150 and 1238-1248): the
\* ranges of the matched groups of the two buckets, and nothing else.
PoolTotalRanges(combined, ln) ==
    GroupRanges(MatchedGroups(combined.icase, TRUE, ln))
        \o GroupRanges(MatchedGroups(combined.case, FALSE, ln))

\* One line of the aggregated pass of _process_file_core: << line, count >>.
PoolAggregatedLine(combined, ln) ==
    IF PoolTotalRanges(combined, ln) # << >>
    THEN ApplyMaskingToLine(ln, PoolTotalRanges(combined, ln))
    ELSE << ln, 0 >>

\* The aggregated single-line pass of one execution path over the lines
\* lns: "memory" is the in-memory loop of main (lines 1369-1419), "stream"
\* its streaming loop (lines 938-985), "pool" _process_file_core (lines
\* 1131-1153 and 1236-1251).  ran: whether there is a type1 rule; ok: whether
\* the combined patterns compiled.
Type1PassOf(p, all_rules, skip_lines_global, lns) ==
    LET type1_rules == SelectSeq(all_rules, LAMBDA r : r.type = "type1")
        combined == BuildCombinedType1Regex(type1_rules)
        out(i) == IF p = "pool" THEN PoolAggregatedLine(combined, lns[i])
                  ELSE AggregatedLine(combined, lns[i], i - 1, skip_lines_global)
    IN  IF type1_rules = << >>
        THEN [ran |-> FALSE, ok |-> TRUE, lines |-> lns, count |-> 0]
        ELSE IF ~CombinedCompiles(combined)
        THEN [ran |-> TRUE, ok |-> FALSE, lines |-> lns, count |-> 0]
        ELSE [ran |-> TRUE, ok |-> TRUE,
              lines |-> [i \in 1..Len(lns) |-> out(i)[1]],
              count |-> SumSeq([i \in 1..Len(lns) |-> out(i)[2]])]

\* The pass of one block group over the lines lns: in "memory"
\* linesPerRecord below 1 is set to 1 before apply_type2_masking (lines
\* 1430-1432), in "stream" the group goes to stream_apply_rule (line 1000),
\* in "pool" to apply_type2_masking as it is (lines 1157-1163 and 1254-1256).
GroupPassOf(p, group, lns) ==
    LET coerced == IF group.linesPerRecord < 1
                   THEN [group EXCEPT !.linesPerRecord = 1] ELSE group
    IN  IF p = "memory"
        THEN [ok |-> TRUE, lines |-> ApplyType2Masking(lns, coerced)[1],
              count |-> ApplyType2Masking(lns, coerced)[2]]
        ELSE IF p = "stream"
        THEN [ok |-> TRUE, lines |-> StreamApplyRule(lns, group)[1],
              count |-> StreamApplyRule(lns, group)[2]]
        ELSE IF Type2Raises(lns, group)
        THEN [ok |-> FALSE, lines |-> lns, count |-> 0]
        ELSE [ok |-> TRUE, lines |-> ApplyType2Masking(lns, group)[1],
              count |-> ApplyType2Masking(lns, group)[2]]

\* The block groups from the k-th on, one after the other.
RECURSIVE GroupPassesFrom(_, _, _, _, _)
GroupPassesFrom(p, groups, k, lns, cnt) ==
    IF k > Len(groups) THEN [ok |-> TRUE, lines |-> lns, count |-> cnt]
    ELSE LET r == GroupPassOf(p, groups[k], lns)
         IN  IF ~r.ok THEN [ok |-> FALSE, lines |-> lns, count |-> cnt]
             ELSE GroupPassesFrom(p, groups, k + 1, r.lines, cnt + r.count)

\* All passes of one execution path over one file.
ProcessFile(p, all_rules, skip_lines_global, lns) ==
    LET t1 == Type1PassOf(p, all_rules, skip_lines_global, lns)
    IN  IF ~t1.ok THEN [ok |-> FALSE, lines |-> lns, count |-> 0]
        ELSE GroupPassesFrom(p, GroupType2Rules(all_rules), 1, t1.lines, t1.count)

\* ------------------------------------------- Line Masker alone: the machine

\* The variables of the single-line passes, when another part is exercised.
Type1Idle ==
    /\ rules = << >>
    /\ skipLines = 0
    /\ ruleNo = 0
    /\ seqLines = << >>
    /\ seqCount = 0
    /\ aggLines = << >>
    /\ aggCount = 0
    /\ aggRanges = << >>
    /\ aggCalls = << >>

\* The variables of the block scanner, when another part is exercised.
BlockIdle ==
    /\ blockRule = << >>
    /\ bufLines = << >>
    /\ bufCount = 0
    /\ readPos = 0
    /\ state = "outside"
    /\ skip_counter = 0
    /\ relative_idx = 0
    /\ tail_buffer = << >>
    /\ written = << >>
    /\ masked_total = 0

\* The variables of the Line Masker alone, when another part is exercised.
LineIdle ==
    /\ line = << >>
    /\ ranges = << >>
    /\ result = << >>
    /\ count = 0
    /\ again = << >>
    /\ same = << >>

\* The variables of the units exercised alone, when another part is exercised.
ParseIdle ==
    /\ range_string = << >>
    /\ parsed = << >>

MatchIdle ==
    /\ matchAnchor = << >>
    /\ matchIcase = TRUE
    /\ matchLine = << >>
    /\ matchFound = FALSE

GroupIdle ==
    /\ type2_rules = << >>
    /\ grouped_type2 = << >>

FileIdle ==
    /\ path = "memory"
    /\ groupNo = 0
    /\ workLines = << >>
    /\ file_masked_count = 0
    /\ passLog = << >>

BatchIdle ==
    /\ effective_mode = "memory"
    /\ jobs = 1
    /\ progress = FALSE
    /\ faults = << >>
    /\ file_index = 0
    /\ processed_files = 0
    /\ errors = 0
    /\ pooled = {}
    /\ reports = << >>
    /\ outputs = << >>
    /\ masked_counts = << >>
    /\ runs = << >>
    /\ saves = << >>
    /\ grand_total_masked = 0
    /\ masked_sum = 0
    /\ config = "unread"

PartsIdle == ParseIdle /\ MatchIdle /\ GroupIdle /\ FileIdle /\ BatchIdle

InitLine ==
    /\ scenario = "line"
    /\ pc = "ready"
    /\ MASK_MODE \in {"star", "scramble"}
    /\ rng \in Perms(MaxLen)
    /\ line \in SeqsUpTo(Chars, MaxLen)
    /\ ranges \in SeqsUpTo(RangeUniverse, MaxRanges)
    /\ result = << >>
    /\ count = 0
    /\ again = << >>
    /\ same = << >>
    /\ inputLines = << >>
    /\ Type1Idle
    /\ BlockIdle
    /\ PartsIdle

\* One call apply_masking_to_line(line, ranges).
MaskLine ==
    /\ scenario = "line"
    /\ pc = "ready"
    /\ result' = ApplyMaskingToLine(line, ranges)[1]
    /\ count' = ApplyMaskingToLine(line, ranges)[2]
    /\ pc' = "masked"
    /\ UNCHANGED << scenario, MASK_MODE, rng, line, ranges, again, same, inputLines, partVars,
                    type1Vars, blockVars >>

\* A second call, on the line the first call returned, with the same ranges.
MaskAgain ==
    /\ scenario = "line"
    /\ pc = "masked"
    /\ again' = ApplyMaskingToLine(result, ranges)[1]
    /\ pc' = "remasked"
    /\ UNCHANGED << scenario, MASK_MODE, rng, line, ranges, result, count, same,
                    inputLines, partVars, type1Vars, blockVars >>

\* A repeated call apply_masking_to_line(line, ranges), made after the other
\* calls, with the arguments of the first.
MaskSame ==
    /\ scenario = "line"
    /\ pc = "remasked"
    /\ same' = ApplyMaskingToLine(line, ranges)[1]
    /\ pc' = "repeated"
    /\ UNCHANGED << scenario, MASK_MODE, rng, line, ranges, result, count, again,
                    inputLines, partVars, type1Vars, blockVars >>

NextLine == MaskLine \/ MaskAgain \/ MaskSame

SpecLine == InitLine /\ [][NextLine]_vars

\* --------------------------------------------- single-line passes: machine

\* The order the seeded generator gives in the passes: the reversal.
Reversal(n) == [i \in 1..n |-> n + 1 - i]

\* A type1 rule record of the configuration.
Type1Rule(anchor, use_raw, case_sensitive, positions) ==
    [type |-> "type1", anchor |-> anchor, useRawRegex |-> use_raw,
     caseSensitive |-> case_sensitive, positionsString |-> positions]

\* The rules the configurations of the model are made of: wildcard anchors
\* with '%' and with '|', an empty anchor, a case-sensitive anchor, an anchor
\* that only a masked line matches, raw patterns (one that does not compile)
\* and a position string none of whose tokens is valid.
Type1Rules ==
    { Type1Rule(<< "a", "%" >>, FALSE, FALSE, << << 1 >> >>),
      Type1Rule(<< "%", "b" >>, FALSE, FALSE, << << 2 >> >>),
      Type1Rule(<< "a", "|", "b" >>, FALSE, FALSE, << << 1 >> >>),
      Type1Rule(<< >>, FALSE, FALSE, << << 2 >> >>),
      Type1Rule(<< "A", "%" >>, FALSE, TRUE, << << 2 >> >>),
      Type1Rule(<< "*", "%" >>, FALSE, FALSE, << << 2 >> >>),
      Type1Rule(<< "%" >>, FALSE, FALSE, << << 0 >>, << 2, 1 >> >>),
      Type1Rule(<< "b" >>, TRUE, FALSE, << << 1, 2 >> >>),
      Type1Rule(<< "(" >>, TRUE, FALSE, << << 1 >> >>) }

\* The lines the files of the single-line passes are made of.
Type1Lines ==
    { << "a" >>, << "b" >>, << "a", "b" >>, << "A", "b" >>, << "a", " ", "b" >> }

InitType1 ==
    /\ scenario = "type1"
    /\ pc = "ready"
    /\ MASK_MODE \in {"star", "scramble"}
    /\ rng = Reversal(MaxLen)
    /\ LineIdle
    /\ inputLines \in SeqsUpTo(Type1Lines, MaxType1Lines)
    /\ \E r1, r2 \in Type1Rules : rules = << r1, r2 >>
    /\ skipLines \in {0, 1}
    /\ ruleNo = 0
    /\ seqLines = inputLines
    /\ seqCount = 0
    /\ aggLines = << >>
    /\ aggCount = 0
    /\ aggRanges = << >>
    /\ aggCalls = << >>
    /\ BlockIdle
    /\ PartsIdle

\* The rules one by one: apply_type1_masking(lines, rule) for the next rule.
ApplyRuleAlone ==
    /\ scenario = "type1"
    /\ pc = "ready"
    /\ ruleNo < Len(rules)
    /\ seqLines' = ApplyType1Masking(seqLines, rules[ruleNo + 1])[1]
    /\ seqCount' = seqCount + ApplyType1Masking(seqLines, rules[ruleNo + 1])[2]
    /\ ruleNo' = ruleNo + 1
    /\ UNCHANGED << scenario, pc, MASK_MODE, rng, lineVars, inputLines, partVars, rules,
                    skipLines, aggLines, aggCount, aggRanges, aggCalls,
                    blockVars >>

\* The aggregated pass of main over the input lines (lines 1369-1418).  When
\* a combined pattern does not compile, re.error leaves the try block of line
\* 1368 and the file is given up (lines 1437-1441).
AggregatedPass ==
    /\ scenario = "type1"
    /\ pc = "ready"
    /\ ruleNo = Len(rules)
    /\ LET combined == BuildCombinedType1Regex(rules)
           n == Len(inputLines)
           out(i) == AggregatedLine(combined, inputLines[i], i - 1, skipLines)
       IN  IF CombinedCompiles(combined)
           THEN /\ aggLines' = [i \in 1..n |-> out(i)[1]]
                /\ aggCount' = SumSeq([i \in 1..n |-> out(i)[2]])
                /\ aggRanges' = [i \in 1..n |->
                       TotalRanges(combined, inputLines[i], i - 1, skipLines)]
                /\ aggCalls' = [i \in 1..n |-> out(i)[3]]
                /\ pc' = "done"
           ELSE /\ pc' = "failed"
                /\ UNCHANGED << aggLines, aggCount, aggRanges, aggCalls >>
    /\ UNCHANGED << scenario, MASK_MODE, rng, lineVars, inputLines, partVars, rules,
                    skipLines, ruleNo, seqLines, seqCount, blockVars >>

NextType1 == ApplyRuleAlone \/ AggregatedPass

SpecType1 == InitType1 /\ [][NextType1]_vars

\* -------------------------------------------------- block scanner: machine

\* A type2 rule record as group_type2_rules returns it: one position segment
\* per relative line, linesPerRecord >= 1.
Type2Rule(skip_start, skip_end, positions) ==
    [type |-> "type2", anchorStart |-> << "S" >>, anchorEnd |-> << "E" >>,
     skipStart |-> skip_start, skipEnd |-> skip_end,
     linesPerRecord |-> Len(positions), positionsString |-> positions,
     caseSensitive |-> FALSE, useRawRegexStart |-> FALSE,
     useRawRegexEnd |-> FALSE]

\* The position strings of the block rules of the model, by segment: one or
\* two lines per record, a segment without a range, a range over a blank.
BlockPositions ==
    { << << << 1 >> >> >>,
      << << << 1, 2 >>, << 3 >> >> >>,
      << << << 1 >> >>, << << 3 >> >> >>,
      << << >>, << << 1, 3 >> >> >> }

\* The lines the files of the block scanner are made of: a start anchor, an
\* end anchor and a body line.
BlockLines == { << "S" >>, << "E" >>, << "a", " ", "b" >> }

InitBlock ==
    /\ scenario = "block"
    /\ pc = "ready"
    /\ MASK_MODE \in {"star", "scramble"}
    /\ rng = Reversal(MaxLen)
    /\ LineIdle
    /\ Type1Idle
    /\ inputLines \in SeqsUpTo(BlockLines, MaxBlockLines)
    /\ \E ss, se \in 0..MaxSkip, ps \in BlockPositions :
          blockRule = Type2Rule(ss, se, ps)
    /\ bufLines = << >>
    /\ bufCount = 0
    /\ readPos = 0
    /\ state = "outside"
    /\ skip_counter = 0
    /\ relative_idx = 0
    /\ tail_buffer = << >>
    /\ written = << >>
    /\ masked_total = 0
    /\ PartsIdle

\* The buffered strategy: apply_type2_masking on the lines of the file.
BufferedPass ==
    /\ scenario = "block"
    /\ pc = "ready"
    /\ bufLines' = ApplyType2Masking(inputLines, blockRule)[1]
    /\ bufCount' = ApplyType2Masking(inputLines, blockRule)[2]
    /\ pc' = "streaming"
    /\ UNCHANGED << scenario, MASK_MODE, rng, lineVars, inputLines, partVars, type1Vars,
                    blockRule, streamVars >>

\* The line the streaming loop reads next (line 847).
NextStreamLine == inputLines[readPos + 1]

StreamReads(st) ==
    /\ scenario = "block"
    /\ pc = "streaming"
    /\ readPos < Len(inputLines)
    /\ state = st
    /\ readPos' = readPos + 1

StreamStartRegex ==
    CreateAnchorRegex(blockRule.anchorStart, blockRule.useRawRegexStart,
                      ~blockRule.caseSensitive)
StreamEndRegex ==
    CreateAnchorRegex(blockRule.anchorEnd, blockRule.useRawRegexEnd,
                      ~blockRule.caseSensitive)

\* stream_apply_rule, state 'outside' (lines 851-857).
StreamOutside ==
    /\ StreamReads("outside")
    /\ written' = Append(written, NextStreamLine)
    /\ IF Search(StreamStartRegex, NextStreamLine)
       THEN state' = "in_skip_start" /\ skip_counter' = 0
       ELSE UNCHANGED << state, skip_counter >>
    /\ UNCHANGED << scenario, pc, MASK_MODE, rng, lineVars, inputLines, partVars, type1Vars,
                    blockRule, bufLines, bufCount, relative_idx, tail_buffer,
                    masked_total >>

\* stream_apply_rule, state 'in_skip_start' (lines 858-863).
StreamSkipStart ==
    /\ StreamReads("in_skip_start")
    /\ skip_counter' = skip_counter + 1
    /\ written' = Append(written, NextStreamLine)
    /\ IF skip_counter' >= blockRule.skipStart
       THEN state' = "in_mask" /\ relative_idx' = 0
       ELSE UNCHANGED << state, relative_idx >>
    /\ UNCHANGED << scenario, pc, MASK_MODE, rng, lineVars, inputLines, partVars, type1Vars,
                    blockRule, bufLines, bufCount, tail_buffer, masked_total >>

\* stream_apply_rule, state 'in_mask', the line matches the end anchor (lines
\* 866-873): the buffered lines are written in their original form.
StreamEndAnchor ==
    /\ StreamReads("in_mask")
    /\ Search(StreamEndRegex, NextStreamLine)
    /\ written' = written \o [k \in 1..Len(tail_buffer) |-> tail_buffer[k].orig]
                          \o << NextStreamLine >>
    /\ tail_buffer' = << >>
    /\ state' = "outside"
    /\ UNCHANGED << scenario, pc, MASK_MODE, rng, lineVars, inputLines, partVars, type1Vars,
                    blockRule, bufLines, bufCount, skip_counter, relative_idx,
                    masked_total >>

\* The step of StreamMaskLine with a buffer that gives up its newest line on
\* overflow.
StreamMaskLineEvictsNewest ==
    /\ StreamReads("in_mask")
    /\ ~Search(StreamEndRegex, NextStreamLine)
    /\ LET multi_line_positions == MultiLinePositions(blockRule)
           positions_for_line ==
               multi_line_positions[(relative_idx % blockRule.linesPerRecord) + 1]
           masked == IF positions_for_line # << >>
                     THEN ApplyMaskingToLine(NextStreamLine, positions_for_line)
                     ELSE << NextStreamLine, 0 >>
       IN  /\ masked_total' = masked_total + masked[2]
           /\ IF Len(tail_buffer) + 1 > blockRule.skipEnd
              THEN /\ written' = Append(written, masked[1])
                   /\ UNCHANGED tail_buffer
              ELSE /\ tail_buffer' = Append(tail_buffer,
                                           [orig |-> NextStreamLine,
                                            masked |-> masked[1]])
                   /\ UNCHANGED written
    /\ relative_idx' = relative_idx + 1
    /\ UNCHANGED << scenario, pc, MASK_MODE, rng, lineVars, inputLines, partVars,
                    type1Vars, blockRule, bufLines, bufCount, state,
                    skip_counter >>

\* stream_apply_rule, state 'in_mask', any other line (lines 874-888).
StreamMaskLine ==
    /\ StreamReads("in_mask")
    /\ ~Search(StreamEndRegex, NextStreamLine)
    /\ LET multi_line_positions == MultiLinePositions(blockRule)
           positions_for_line ==
               multi_line_positions[(relative_idx % blockRule.linesPerRecord) + 1]
           masked == IF positions_for_line # << >>
                     THEN ApplyMaskingToLine(NextStreamLine, positions_for_line)
                     ELSE << NextStreamLine, 0 >>
           appended == Append(tail_buffer,
                              [orig |-> NextStreamLine, masked |-> masked[1]])
       IN  /\ masked_total' = masked_total + masked[2]
           /\ IF Len(appended) > blockRule.skipEnd
              THEN /\ written' = Append(written, Head(appended).masked)
                   /\ tail_buffer' = Tail(appended)
              ELSE /\ tail_buffer' = appended
                   /\ UNCHANGED written
    /\ relative_idx' = relative_idx + 1
    /\ UNCHANGED << scenario, pc, MASK_MODE, rng, lineVars, inputLines, partVars, type1Vars,
                    blockRule, bufLines, bufCount, state, skip_counter >>

\* The end of input without the flush of the trailing buffer.
StreamEOFWithoutFlush ==
    /\ scenario = "block"
    /\ pc = "streaming"
    /\ readPos = Len(inputLines)
    /\ pc' = "done"
    /\ tail_buffer' = << >>
    /\ UNCHANGED << scenario, MASK_MODE, rng, lineVars, inputLines, partVars,
                    type1Vars, blockRule, bufLines, bufCount, readPos, state,
                    skip_counter, relative_idx, written, masked_total >>

\* stream_apply_rule at end of input (lines 891-896): in state 'in_mask' the
\* buffered lines are written in their masked form.
StreamEOF ==
    /\ scenario = "block"
    /\ pc = "streaming"
    /\ readPos = Len(inputLines)
    /\ IF state = "in_mask"
       THEN /\ written' = written \o [k \in 1..Len(tail_buffer) |-> tail_buffer[k].masked]
            /\ tail_buffer' = << >>
       ELSE UNCHANGED << written, tail_buffer >>
    /\ pc' = "done"
    /\ UNCHANGED << scenario, MASK_MODE, rng, lineVars, inputLines, partVars, type1Vars,
                    blockRule, bufLines, bufCount, readPos, state, skip_counter,
                    relative_idx, masked_total >>

NextBlock ==
    \/ BufferedPass
    \/ StreamOutside
    \/ StreamSkipStart
    \/ StreamEndAnchor
    \/ StreamMaskLine
    \/ StreamEOF

SpecBlock == InitBlock /\ [][NextBlock]_vars

\* --------------------------------------------- range parser alone: machine

\* The characters of the range strings of the model: digits, the two
\* separators, a blank and a letter.
RangeChars == {"0", "1", "2", "-", ",", " ", "x"}

InitParse ==
    /\ scenario = "parse"
    /\ pc = "ready"
    /\ MASK_MODE = "star"
    /\ rng = Reversal(MaxLen)
    /\ LineIdle
    /\ inputLines = << >>
    /\ Type1Idle
    /\ BlockIdle
    /\ range_string \in SeqsUpTo(RangeChars, MaxRangeString)
    /\ parsed = << >>
    /\ MatchIdle
    /\ GroupIdle
    /\ FileIdle
    /\ BatchIdle

\* One call parse_char_ranges(range_string).
ParseRanges ==
    /\ scenario = "parse"
    /\ pc = "ready"
    /\ parsed' = ParseRangeString(range_string)
    /\ pc' = "parsed"
    /\ UNCHANGED << scenario, MASK_MODE, rng, lineVars, inputLines, type1Vars,
                    blockVars, range_string, matchVars, groupVars, fileVars,
                    batchVars >>

NextParse == ParseRanges

SpecParse == InitParse /\ [][NextParse]_vars

\* -------------------------------------------- anchor matcher alone: machine

\* The characters of the wildcard anchors of the model.
AnchorChars == {"a", "B", "%", "|", "\\"}

\* The characters of the lines searched.
MatchChars == {"a", "b", "A", ".", "\\"}

InitMatch ==
    /\ scenario = "match"
    /\ pc = "ready"
    /\ MASK_MODE = "star"
    /\ rng = Reversal(MaxLen)
    /\ LineIdle
    /\ inputLines = << >>
    /\ Type1Idle
    /\ BlockIdle
    /\ ParseIdle
    /\ matchAnchor \in SeqsUpTo(AnchorChars, MaxAnchor)
    /\ matchIcase \in BOOLEAN
    /\ matchLine \in SeqsUpTo(MatchChars, MaxMatchLine)
    /\ matchFound = FALSE
    /\ GroupIdle
    /\ FileIdle
    /\ BatchIdle

\* create_anchor_regex(anchor_string, False, case_insensitive).search(line).
SearchAnchor ==
    /\ scenario = "match"
    /\ pc = "ready"
    /\ matchFound' = Search(CreateAnchorRegex(matchAnchor, FALSE, matchIcase),
                            matchLine)
    /\ pc' = "searched"
    /\ UNCHANGED << scenario, MASK_MODE, rng, lineVars, inputLines, type1Vars,
                    blockVars, parseVars, matchAnchor, matchIcase, matchLine,
                    groupVars, fileVars, batchVars >>

NextMatch == SearchAnchor

SpecMatch == InitMatch /\ [][NextMatch]_vars

\* -------------------------------------------- block grouping alone: machine

\* A type2 rule with the given skipStart, linesPerRecord and segments.
GroupRule(skip_start, lines_per_record, positions) ==
    [Type2Rule(skip_start, 0, positions) EXCEPT !.linesPerRecord = lines_per_record]

\* The rules given to group_type2_rules in the model: two signatures by
\* skipStart, linesPerRecord 1, 2, 0 and -1, segments that overlap, touch or
\* lie apart, a segment out of order, an empty segment, a token that is not
\* valid, more segments than linesPerRecord, and a rule that is not type2.
GroupRuleUniverse ==
    { GroupRule(0, 1, << << << 1, 2 >> >> >>),
      GroupRule(0, 1, << << << 3 >> >> >>),
      GroupRule(0, 1, << << << 5 >> >>, << << 1 >> >> >>),
      GroupRule(0, 2, << << << 2, 4 >> >>, << << 1 >> >> >>),
      GroupRule(0, 2, << << >>, << << 2 >>, << 0 >> >> >>),
      GroupRule(1, 1, << << << 2, 3 >>, << 1 >> >> >>),
      GroupRule(0, 0, << << << 4 >> >> >>),
      GroupRule(0, -1, << << << 1 >> >> >>),
      Type1Rule(<< "a", "%" >>, FALSE, FALSE, << << 1 >> >>) }

InitGroup ==
    /\ scenario = "group"
    /\ pc = "ready"
    /\ MASK_MODE = "star"
    /\ rng = Reversal(MaxLen)
    /\ LineIdle
    /\ inputLines = << >>
    /\ Type1Idle
    /\ BlockIdle
    /\ ParseIdle
    /\ MatchIdle
    /\ type2_rules \in SeqsUpTo(GroupRuleUniverse, MaxGroupRules)
    /\ grouped_type2 = << >>
    /\ FileIdle
    /\ BatchIdle

\* One call group_type2_rules(type2_rules).
GroupRules ==
    /\ scenario = "group"
    /\ pc = "ready"
    /\ grouped_type2' = GroupType2Rules(type2_rules)
    /\ pc' = "grouped"
    /\ UNCHANGED << scenario, MASK_MODE, rng, lineVars, inputLines, type1Vars,
                    blockVars, parseVars, matchVars, type2_rules, fileVars,
                    batchVars >>

NextGroup == GroupRules

SpecGroup == InitGroup /\ [][NextGroup]_vars

\* ------------------------------------------------------ one file: machine

\* The rule lists of the configurations of the model: a type1 rule before
\* and after type2 rules, type2 rules of two signatures with the first
\* signature occurring twice, an always-apply rule, linesPerRecord 2, 0 and
\* -1, a raw pattern that does not compile, and no rule at all.
FileConfigs ==
    { << Type1Rule(<< "a", "%" >>, FALSE, FALSE, << << 1 >> >>),
         GroupRule(0, 1, << << << 3 >> >> >>) >>,
      << GroupRule(1, 1, << << << 1 >> >> >>),
         Type1Rule(<< "a", "%" >>, FALSE, FALSE, << << 1 >> >>),
         GroupRule(0, 1, << << << 3 >> >> >>),
         GroupRule(1, 1, << << << 2, 3 >> >> >>) >>,
      << Type1Rule(<< >>, FALSE, FALSE, << << 1 >> >>),
         Type1Rule(<< "a", "%" >>, FALSE, FALSE, << << 3 >> >>),
         GroupRule(0, 1, << << << 1 >> >> >>) >>,
      << GroupRule(1, 2, << << << 1 >> >>, << << 3 >> >> >>) >>,
      << GroupRule(1, 0, << << << 1 >> >> >>) >>,
      << GroupRule(1, -1, << << << 1 >> >> >>) >>,
      << Type1Rule(<< "(" >>, TRUE, FALSE, << << 1 >> >>),
         GroupRule(0, 1, << << << 1 >> >> >>) >>,
      << >> }

\* The lines the files are made of.
FileLines == { << "S" >>, << "E" >>, << "a", " ", "b" >> }

InitFile ==
    /\ scenario = "file"
    /\ pc = "start"
    /\ MASK_MODE = "star"
    /\ rng = Reversal(MaxLen)
    /\ LineIdle
    /\ inputLines \in SeqsUpTo(FileLines, MaxFileLines)
    /\ rules \in FileConfigs
    /\ skipLines \in {0, 1}
    /\ ruleNo = 0
    /\ seqLines = << >>
    /\ seqCount = 0
    /\ aggLines = << >>
    /\ aggCount = 0
    /\ aggRanges = << >>
    /\ aggCalls = << >>
    /\ BlockIdle
    /\ ParseIdle
    /\ MatchIdle
    /\ GroupIdle
    /\ path \in {"memory", "stream", "pool"}
    /\ groupNo = 0
    /\ workLines = inputLines
    /\ file_masked_count = 0
    /\ passLog = << >>
    /\ BatchIdle

\* The aggregated single-line pass of the file, when there is a type1 rule.
\* A combined pattern that does not compile ends the processing of the file.
FileType1Pass ==
    /\ scenario = "file"
    /\ pc = "start"
    /\ LET t1 == Type1PassOf(path, rules, skipLines, workLines)
       IN  /\ pc' = IF t1.ok THEN "groups" ELSE "failed"
           /\ workLines' = t1.lines
           /\ file_masked_count' = file_masked_count + t1.count
           /\ passLog' = IF t1.ran /\ t1.ok
                         THEN Append(passLog, [pass |-> "type1", rule |-> << >>,
                                               read |-> workLines,
                                               wrote |-> t1.lines])
                         ELSE passLog
    /\ UNCHANGED << scenario, MASK_MODE, rng, lineVars, inputLines, type1Vars,
                    blockVars, parseVars, matchVars, groupVars, path, groupNo,
                    batchVars >>

\* The pass of the next block group of the file.
FileGroupPass ==
    /\ scenario = "file"
    /\ pc = "groups"
    /\ groupNo < Len(GroupType2Rules(rules))
    /\ LET group == GroupType2Rules(rules)[groupNo + 1]
           r == GroupPassOf(path, group, workLines)
       IN  /\ pc' = IF r.ok THEN "groups" ELSE "failed"
           /\ workLines' = r.lines
           /\ file_masked_count' = file_masked_count + r.count
           /\ passLog' = IF r.ok
                         THEN Append(passLog, [pass |-> "type2", rule |-> group,
                                               read |-> workLines,
                                               wrote |-> r.lines])
                         ELSE passLog
    /\ groupNo' = groupNo + 1
    /\ UNCHANGED << scenario, MASK_MODE, rng, lineVars, inputLines, type1Vars,
                    blockVars, parseVars, matchVars, groupVars, path, batchVars >>

\* The output of the file is written once every group has been applied.
FileSave ==
    /\ scenario = "file"
    /\ pc = "groups"
    /\ groupNo = Len(GroupType2Rules(rules))
    /\ pc' = "saved"
    /\ UNCHANGED << scenario, MASK_MODE, rng, lineVars, inputLines, type1Vars,
                    blockVars, parseVars, matchVars, groupVars, fileVars,
                    batchVars >>

NextFile == FileType1Pass \/ FileGroupPass \/ FileSave

SpecFile == InitFile /\ [][NextFile]_vars

\* ------------------------------------------------ one run of main: machine

\* The steps of the processing of one input file that can raise: reading it,
\* the single-line pass, a block group pass, writing its output.
FaultKinds == {"none", "read", "type1", "type2", "write"}

\* What the load of the rule configuration finds (lines 551-568).
ConfigKinds == {"loaded", "missing", "unparsable", "no_rules"}

\* The masked counts the passes of a file return.
FileCounts == {1, 2}

\* files_progress_cb is set only under --progress with more than one input
\* file (lines 728-736).
FilesProgressCb == progress /\ Len(faults) > 1

\* One iteration of the in-memory loop of main over a file whose step fault
\* raises (lines 1308-1470): a read error and a rule error print ERROR and
\* continue with the next file; a write error prints ERROR and the file is
\* counted in processed_files.  ran: the passes were started; total: what
\* the iteration adds to grand_total_masked.
MemoryOutcome(fault) ==
    [reported |-> IF fault = "none" THEN {"SUCCESS"} ELSE {"ERROR"},
     written |-> fault = "none",
     counted |-> fault \in {"none", "write"},
     raised |-> FALSE,
     continued |-> fault \in {"read", "type1", "type2"},
     ran |-> fault # "read",
     total |-> IF fault = "none" THEN "all" ELSE "none"]

\* One iteration of the streaming loop of main (lines 925-1056): a failed
\* sniff of the file prints ERROR and continues; the single-line pass is
\* outside every try, so its error leaves main; an error of a block group
\* prints ERROR and leaves the loop of the groups, after which the output is
\* written from the lines of the last pass that succeeded, SUCCESS is
\* printed and the count of the passes made is added to the grand total; a
\* write error prints ERROR.
StreamOutcome(fault) ==
    [reported |-> CASE fault = "none" -> {"SUCCESS"}
                    [] fault = "read" -> {"ERROR"}
                    [] fault = "type1" -> {}
                    [] fault = "type2" -> {"ERROR", "SUCCESS"}
                    [] fault = "write" -> {"ERROR"},
     written |-> fault \in {"none", "type2"},
     counted |-> fault \in {"none", "type2", "write"},
     raised |-> fault = "type1",
     continued |-> fault = "read",
     ran |-> fault # "read",
     total |-> CASE fault = "none" -> "all"
                 [] fault = "type2" -> "part"
                 [] OTHER -> "none"]

\* One call of _process_file_core (lines 1098-1272): every error is caught
\* by the except of line 1270, which prints ERROR and returns (0, 1); without
\* an error the call returns the count of the file and status 0.
PoolOutcome(fault) ==
    [reported |-> IF fault = "none" THEN {"SUCCESS"} ELSE {"ERROR"},
     written |-> fault = "none",
     status |-> IF fault = "none" THEN 0 ELSE 1,
     ran |-> fault # "read"]

\* The counts an iteration can add to grand_total_masked for a file whose
\* passes return c: all of it, nothing, or the count of the passes made
\* before a block group raised.
Added(total, c) ==
    CASE total = "all" -> {c}
      [] total = "part" -> 0..c
      [] OTHER -> {0}

\* main has parsed its arguments (line 431); the module-level flag has the
\* value of line 12.
InitBatch ==
    /\ scenario = "batch"
    /\ pc = "main"
    /\ MASK_MODE = "star"
    /\ rng = Reversal(MaxLen)
    /\ LineIdle
    /\ inputLines = << >>
    /\ Type1Idle
    /\ BlockIdle
    /\ ParseIdle
    /\ MatchIdle
    /\ GroupIdle
    /\ FileIdle
    /\ effective_mode \in {"memory", "stream"}
    /\ jobs \in {1, 2}
    /\ progress \in BOOLEAN
    /\ faults \in SeqsUpTo(FaultKinds, MaxFiles) \ { << >> }
    /\ masked_counts \in [DOMAIN faults -> FileCounts]
    /\ file_index = 0
    /\ processed_files = 0
    /\ errors = 0
    /\ pooled = {}
    /\ reports = [i \in DOMAIN faults |-> {}]
    /\ outputs = [i \in DOMAIN faults |-> FALSE]
    /\ runs = [i \in DOMAIN faults |-> 0]
    /\ saves = [i \in DOMAIN faults |-> 0]
    /\ grand_total_masked = 0
    /\ masked_sum = 0
    /\ config = "unread"

\* main stores --mask-mode in the module-level flag (lines 443-444).
SetMaskMode ==
    /\ scenario = "batch"
    /\ pc = "main"
    /\ \E mask_mode \in {"star", "scramble"} : MASK_MODE' = mask_mode
    /\ pc' = "config"
    /\ UNCHANGED << scenario, rng, lineVars, inputLines, type1Vars, blockVars,
                    parseVars, matchVars, groupVars, fileVars, batchVars >>

LoadConfigIgnoresOutcome ==
    /\ scenario = "batch"
    /\ pc = "config"
    /\ config' \in ConfigKinds
    /\ pc' = "files"
    /\ UNCHANGED << scenario, MASK_MODE, rng, lineVars, inputLines, type1Vars,
                    blockVars, parseVars, matchVars, groupVars, fileVars,
                    effective_mode, jobs, progress, faults, file_index,
                    processed_files, errors, pooled, reports, outputs,
                    masked_counts, runs, saves, grand_total_masked,
                    masked_sum >>

\* main loads the rule configuration (lines 551-568): a file that is
\* missing, that is not JSON or that holds no rule ends the run by
\* sys.exit(1).
LoadConfig ==
    /\ scenario = "batch"
    /\ pc = "config"
    /\ config' \in ConfigKinds
    /\ pc' = IF config' = "loaded" THEN "files" ELSE "exited"
    /\ UNCHANGED << scenario, MASK_MODE, rng, lineVars, inputLines, type1Vars,
                    blockVars, parseVars, matchVars, groupVars, fileVars,
                    effective_mode, jobs, progress, faults, file_index,
                    processed_files, errors, pooled, reports, outputs,
                    masked_counts, runs, saves, grand_total_masked,
                    masked_sum >>

\* The next input file in the in-memory loop of main.
MemoryFile ==
    /\ scenario = "batch"
    /\ pc = "files"
    /\ effective_mode = "memory"
    /\ file_index < Len(faults)
    /\ LET i == file_index + 1
           o == MemoryOutcome(faults[i])
       IN  /\ file_index' = i
           /\ reports' = [reports EXCEPT ![i] = @ \cup o.reported]
           /\ outputs' = [outputs EXCEPT ![i] = @ \/ o.written]
           /\ runs' = [runs EXCEPT ![i] = @ + (IF o.ran THEN 1 ELSE 0)]
           /\ saves' = [saves EXCEPT ![i] = @ + (IF o.written THEN 1 ELSE 0)]
           /\ processed_files' = processed_files + (IF o.counted THEN 1 ELSE 0)
           /\ \E a \in Added(o.total, masked_counts[i]) :
                 grand_total_masked' = grand_total_masked + a
    /\ UNCHANGED << scenario, pc, MASK_MODE, rng, lineVars, inputLines,
                    type1Vars, blockVars, parseVars, matchVars, groupVars,
                    fileVars, effective_mode, jobs, progress, faults,
                    masked_counts, errors, pooled, masked_sum , config >>

\* The next input file in the streaming branch of the loop of main, to the
\* end of the branch (lines 925-1306): after the file, with more than one job
\* and more than one file the worker pool takes all the files; otherwise
\* line 1305 calls files_progress_cb, which is None without --progress or
\* with a single file, and the TypeError leaves main.
StreamFile ==
    /\ scenario = "batch"
    /\ pc = "files"
    /\ effective_mode = "stream"
    /\ file_index < Len(faults)
    /\ LET i == file_index + 1
           o == StreamOutcome(faults[i])
       IN  /\ file_index' = i
           /\ reports' = [reports EXCEPT ![i] = @ \cup o.reported]
           /\ outputs' = [outputs EXCEPT ![i] = @ \/ o.written]
           /\ runs' = [runs EXCEPT ![i] = @ + (IF o.ran THEN 1 ELSE 0)]
           /\ saves' = [saves EXCEPT ![i] = @ + (IF o.written THEN 1 ELSE 0)]
           /\ processed_files' = processed_files + (IF o.counted THEN 1 ELSE 0)
           /\ \E a \in Added(o.total, masked_counts[i]) :
                 grand_total_masked' = grand_total_masked + a
           /\ pc' = IF o.raised THEN "crashed"
                    ELSE IF o.continued THEN "files"
                    ELSE IF jobs > 1 /\ Len(faults) > 1 THEN "pool"
                    ELSE IF ~FilesProgressCb THEN "crashed"
                    ELSE "files"
    /\ UNCHANGED << scenario, MASK_MODE, rng, lineVars, inputLines, type1Vars,
                    blockVars, parseVars, matchVars, groupVars, fileVars,
                    effective_mode, jobs, progress, faults, masked_counts,
                    errors, pooled, masked_sum , config >>


\* A worker of the pool completes a file and the loop over as_completed
\* takes its result (lines 1280-1288), in any order.
PoolFile ==
    /\ scenario = "batch"
    /\ pc = "pool"
    /\ \E i \in DOMAIN faults \ pooled :
          LET o == PoolOutcome(faults[i])
          IN  /\ pooled' = pooled \cup {i}
              /\ reports' = [reports EXCEPT ![i] = @ \cup o.reported]
              /\ outputs' = [outputs EXCEPT ![i] = @ \/ o.written]
              /\ runs' = [runs EXCEPT ![i] = @ + (IF o.ran THEN 1 ELSE 0)]
              /\ saves' = [saves EXCEPT ![i] = @ + (IF o.written THEN 1 ELSE 0)]
              /\ masked_sum' = masked_sum
                                   + (IF o.status = 0 THEN masked_counts[i] ELSE 0)
              /\ errors' = errors + o.status
              /\ processed_files' = processed_files + 1
    /\ UNCHANGED << scenario, pc, MASK_MODE, rng, lineVars, inputLines,
                    type1Vars, blockVars, parseVars, matchVars, groupVars,
                    fileVars, effective_mode, jobs, progress, faults,
                    masked_counts, file_index, grand_total_masked , config >>

\* Every future of the pool is done: masked_sum is added to the grand total,
\* the summary is printed and main returns (lines 1289-1302).
PoolDone ==
    /\ scenario = "batch"
    /\ pc = "pool"
    /\ pooled = DOMAIN faults
    /\ grand_total_masked' = grand_total_masked + masked_sum
    /\ pc' = "finished"
    /\ UNCHANGED << scenario, MASK_MODE, rng, lineVars, inputLines, type1Vars,
                    blockVars, parseVars, matchVars, groupVars, fileVars,
                    effective_mode, jobs, progress, faults, masked_counts,
                    file_index, processed_files, errors, pooled, reports,
                    outputs, runs, saves, masked_sum , config >>

\* The loop of main is over: the summary is printed (lines 1472-1482).
BatchDone ==
    /\ scenario = "batch"
    /\ pc = "files"
    /\ file_index = Len(faults)
    /\ pc' = "finished"
    /\ UNCHANGED << scenario, MASK_MODE, rng, lineVars, inputLines, type1Vars,
                    blockVars, parseVars, matchVars, groupVars, fileVars,
                    batchVars >>

NextBatch ==
    \/ SetMaskMode
    \/ LoadConfig
    \/ MemoryFile
    \/ StreamFile
    \/ PoolFile
    \/ PoolDone
    \/ BatchDone

SpecBatch == InitBatch /\ [][NextBatch]_vars

\* ------------------------------------------------------- the engine's parts

InitAll == InitLine \/ InitType1 \/ InitBlock

NextAll == NextLine \/ NextType1 \/ NextBlock

\* Every part of the engine: the Line Masker alone, the single-line passes,
\* the block scanner.
Spec == InitAll /\ [][NextAll]_vars

\* ================================================================== claims

\* The selected offsets of the Line Masker, as the specification words them:
\* inside the line, inside at least one range, not whitespace.
Selected(ln, rs) ==
    { i \in 0..(Len(ln) - 1) :
        /\ \E k \in DOMAIN rs : rs[k].start <= i /\ i <= rs[k].end
        /\ ~IsSpace(ln[i + 1]) }

\* Line b has the length of line a and every whitespace character of a.
KeepsBlanks(a, b) ==
    /\ Len(a) = Len(b)
    /\ \A i \in 1..Len(a) : IsSpace(a[i]) => b[i] = a[i]

LineMasked == scenario = "line" /\ pc \in {"masked", "remasked", "repeated"}

\* C1: whitespace invariance.  In both modes every offset that holds a
\* whitespace character in the line given to apply_masking_to_line holds the
\* same character in the line it returns; the same is true, line by line, of
\* the output of the single-line passes (one rule at a time, aggregated) and
\* of the block pass (buffered, streaming).
C1_WhitespaceInvariance ==
    /\ LineMasked => KeepsBlanks(line, result)
    /\ scenario = "type1" =>
          /\ \A k \in DOMAIN seqLines : KeepsBlanks(inputLines[k], seqLines[k])
          /\ \A k \in DOMAIN aggLines : KeepsBlanks(inputLines[k], aggLines[k])
    /\ scenario = "block" =>
          /\ \A k \in DOMAIN bufLines : KeepsBlanks(inputLines[k], bufLines[k])
          /\ \A k \in DOMAIN written :
                k \in DOMAIN inputLines /\ KeepsBlanks(inputLines[k], written[k])

\* C1 witness: a call that masked something on a line with a whitespace
\* character inside one of the ranges.
C1_Witness ==
    /\ LineMasked
    /\ count > 0
    /\ \E i \in 1..Len(line) : IsSpace(line[i]) /\ InRange(ranges, i - 1)

\* C7: star mode.  The returned line has the length of the line given, holds
\* '*' at the selected offsets and the given character at every other offset.
C7_StarMasksSelected ==
    (LineMasked /\ MASK_MODE = "star") =>
        /\ Len(result) = Len(line)
        /\ \A i \in 0..(Len(line) - 1) :
              result[i + 1] = IF i \in Selected(line, ranges) THEN "*"
                              ELSE line[i + 1]
        /\ Selected(line, ranges) = {} => result = line

\* C7 witness: a star-mode call with a selected offset, an offset in a range
\* that is not selected, and an offset outside every range.
C7_Witness ==
    /\ LineMasked /\ MASK_MODE = "star"
    /\ Selected(line, ranges) # {}
    /\ \E i \in 0..(Len(line) - 1) :
          InRange(ranges, i) /\ i \notin Selected(line, ranges)
    /\ \E k \in DOMAIN ranges : ranges[k].end >= Len(line)

\* C8: in both modes the returned count is the number of selected offsets,
\* an offset that several ranges cover counted once; it is 0 exactly when no
\* offset is selected.
C8_CountIsSelected ==
    LineMasked =>
        /\ count = Cardinality(Selected(line, ranges))
        /\ count = 0 <=> Selected(line, ranges) = {}

\* C8 witness: a call in which two ranges of the list cover the same selected
\* offset.
C8_Witness ==
    /\ LineMasked
    /\ \E i \in Selected(line, ranges) :
          \E k1, k2 \in DOMAIN ranges :
              /\ k1 # k2
              /\ ranges[k1].start <= i /\ i <= ranges[k1].end
              /\ ranges[k2].start <= i /\ i <= ranges[k2].end

\* C9: star-mode idempotence.  apply_masking_to_line applied to the line it
\* returned, with the same ranges, returns that line.
C9_StarIdempotent ==
    (scenario = "line" /\ pc = "remasked" /\ MASK_MODE = "star") => again = result

\* C9 witness: a second star-mode call on a line the first call changed.
C9_Witness ==
    /\ scenario = "line" /\ pc = "remasked" /\ MASK_MODE = "star"
    /\ result # line

\* The number of offsets of the set at which the line holds character c.
Occurrences(ln, offsets, c) == Cardinality({ i \in offsets : ln[i + 1] = c })

\* C10: scramble mode.  The returned line has the length of the line given,
\* the characters at the offsets that are not selected are unchanged, and
\* every character occurs at the selected offsets as often as before.
C10_ScramblePreserves ==
    (LineMasked /\ MASK_MODE = "scramble") =>
        /\ Len(result) = Len(line)
        /\ \A i \in 0..(Len(line) - 1) :
              i \notin Selected(line, ranges) => result[i + 1] = line[i + 1]
        /\ \A c \in Chars :
              Occurrences(result, Selected(line, ranges), c)
                  = Occurrences(line, Selected(line, ranges), c)

\* C10 witness: a scramble-mode call that returned a line other than the one
\* given.
C10_Witness ==
    /\ LineMasked /\ MASK_MODE = "scramble"
    /\ result # line

TrimmedTokens(chars) ==
    [k \in 1..Len(SplitOn(chars, ",")) |-> Strip(SplitOn(chars, ",")[k])]

\* Whether a text is an integer in decimal digits; blanks around the digits
\* are not counted as part of it.
IsInteger(text) ==
    /\ Strip(text) # << >>
    /\ \A i \in 1..Len(Strip(text)) : Strip(text)[i] \in {"0", "1", "2", "3"}

\* The range the claim gives for one token: one range for "N" and for "N-M"
\* with 1 <= N <= M, nothing for every other token.
ClaimedRange(token) ==
    LET dashes == { i \in 1..Len(token) : token[i] = "-" }
    IN  IF dashes = {}
        THEN IF IsInteger(token) /\ DecimalValue(Strip(token)) >= 1
             THEN << [start |-> DecimalValue(Strip(token)) - 1,
                      end |-> DecimalValue(Strip(token)) - 1] >>
             ELSE << >>
        ELSE IF Cardinality(dashes) = 1
        THEN LET d == CHOOSE i \in dashes : TRUE
                 left == SubSeq(token, 1, d - 1)
                 right == SubSeq(token, d + 1, Len(token))
             IN  IF /\ IsInteger(left) /\ IsInteger(right)
                    /\ 1 <= DecimalValue(Strip(left))
                    /\ DecimalValue(Strip(left)) <= DecimalValue(Strip(right))
                 THEN << [start |-> DecimalValue(Strip(left)) - 1,
                          end |-> DecimalValue(Strip(right)) - 1] >>
                 ELSE << >>
        ELSE << >>

\* The ranges of a sequence of tokens, in token order.
RECURSIVE ClaimedRanges(_)
ClaimedRanges(tokens) ==
    IF tokens = << >> THEN << >>
    ELSE ClaimedRange(Head(tokens)) \o ClaimedRanges(Tail(tokens))

\* C12: range parser.  parse_char_ranges returns, in token order, one range
\* {start: N-1, end: M-1} for each comma-separated trimmed token "N" or "N-M"
\* with integers 1 <= N <= M, and nothing for any other token, whatever the
\* tokens around it.
C12_RangeParser ==
    (scenario = "parse" /\ pc = "parsed") =>
        parsed = ClaimedRanges(TrimmedTokens(range_string))

\* C12 witness: a parsed string in which a token that gives a range follows
\* a token, not empty, that gives none.
C12_Witness ==
    /\ scenario = "parse" /\ pc = "parsed"
    /\ parsed # << >>
    /\ \E k1, k2 \in 1..Len(TrimmedTokens(range_string)) :
          /\ k1 < k2
          /\ TrimmedTokens(range_string)[k1] # << >>
          /\ ClaimedRange(TrimmedTokens(range_string)[k1]) = << >>
          /\ ClaimedRange(TrimmedTokens(range_string)[k2]) # << >>

\* An alternative as the claim reads it: the whole text equals the
\* alternative, '%' standing for any sequence of characters and every other
\* character for itself.
RECURSIVE WholeLineEquals(_, _, _)
WholeLineEquals(alt, t, icase) ==
    IF alt = << >> THEN t = << >>
    ELSE IF Head(alt) = "%"
         THEN \E k \in 0..Len(t) :
                  WholeLineEquals(Tail(alt), SubSeq(t, k + 1, Len(t)), icase)
         ELSE /\ t # << >>
              /\ IF icase THEN Lower(Head(alt)) = Lower(Head(t))
                          ELSE Head(alt) = Head(t)
              /\ WholeLineEquals(Tail(alt), Tail(t), icase)

\* The lines the claim says a wildcard anchor matches.
ClaimedMatch(anchor, t, icase) ==
    \E k \in 1..Len(SplitOn(anchor, "|")) :
        /\ SplitOn(anchor, "|")[k] # << >>
        /\ WholeLineEquals(SplitOn(anchor, "|")[k], t, icase)

\* C13: anchor matcher, wildcard mode.  A line matches the compiled anchor
\* exactly when it equals, as a whole, one of the non-empty '|'-separated
\* alternatives with '%' read as any sequence of characters, letter case
\* ignored unless the rule is case-sensitive; an anchor without a non-empty
\* alternative matches no line.
C13_WildcardMatch ==
    (scenario = "match" /\ pc = "searched") =>
        (matchFound <=> ClaimedMatch(matchAnchor, matchLine, matchIcase))

\* The place in the rule list of the first type2 rule that belongs to the
\* group.
FirstOccurrence(group) ==
    CHOOSE k \in DOMAIN rules :
        /\ rules[k].type = "type2" /\ Type2Key(rules[k]) = Type2Key(group)
        /\ \A j \in 1..(k - 1) :
              ~(rules[j].type = "type2" /\ Type2Key(rules[j]) = Type2Key(group))

\* C15: pass ordering within one file.  The aggregated single-line pass, when
\* there is one, is the first pass; the block groups follow one at a time in
\* the order in which their signatures first occur in the rule list; every
\* pass reads the lines the pass before it wrote, the first pass the lines of
\* the file; and the file is saved with the lines of the last pass, after a
\* pass for every group.
C15_PassOrdering ==
    scenario = "file" =>
        /\ \A k \in DOMAIN passLog :
              /\ passLog[k].pass = "type1" => k = 1
              /\ passLog[k].read = IF k = 1 THEN inputLines
                                   ELSE passLog[k - 1].wrote
        /\ \A j, k \in DOMAIN passLog :
              (j < k /\ passLog[j].pass = "type2") =>
                  /\ passLog[k].pass = "type2"
                  /\ FirstOccurrence(passLog[j].rule)
                         < FirstOccurrence(passLog[k].rule)
        /\ pc = "saved" =>
              /\ workLines = IF passLog = << >> THEN inputLines
                             ELSE passLog[Len(passLog)].wrote
              /\ (\E k \in DOMAIN passLog : passLog[k].pass = "type1")
                     <=> (\E r \in DOMAIN rules : rules[r].type = "type1")
              /\ Cardinality({ k \in DOMAIN passLog : passLog[k].pass = "type2" })
                     = Cardinality({ Type2Key(rules[r]) :
                                       r \in { x \in DOMAIN rules :
                                                 rules[x].type = "type2" } })

\* C15 witness: a saved file whose configuration begins with a type2 rule
\* and holds a type1 rule, with a single-line pass and two group passes that
\* each changed a line.
C15_Witness ==
    /\ scenario = "file" /\ pc = "saved"
    /\ rules # << >> /\ rules[1].type = "type2"
    /\ Len(passLog) = 3
    /\ \A k \in DOMAIN passLog : passLog[k].wrote # passLog[k].read

\* linesPerRecord as the specification takes it: a value below 1 is 1.
CoercedLinesPerRecord(r) == IF r.linesPerRecord < 1 THEN 1 ELSE r.linesPerRecord

\* The structural signature of a block rule: both anchors, both skip counts,
\* linesPerRecord, case sensitivity and the raw flags.
Signature(r) ==
    << r.anchorStart, r.anchorEnd, r.skipStart, r.skipEnd,
       CoercedLinesPerRecord(r), r.caseSensitive, r.useRawRegexStart,
       r.useRawRegexEnd >>

\* The positions a sequence of ranges covers.
Covered(rs) == UNION { rs[k].start .. rs[k].end : k \in DOMAIN rs }

\* The ranges of a rule for relative line index i.
RangesAt(r, i) ==
    IF i < Len(r.positionsString) THEN ParseCharRanges(r.positionsString[i + 1])
    ELSE << >>

\* The type2 rules given to the grouping.
BlockRulesGiven == SelectSeq(type2_rules, LAMBDA r : r.type = "type2")

\* C16: block rule grouping.  group_type2_rules returns one group for each
\* structural signature among the rules; for every relative line index below
\* linesPerRecord the ranges read back from the group's positionsString cover
\* the positions that the ranges of the member rules cover for that index,
\* and are sorted, apart and not side by side.
C16_GroupingIsUnion ==
    (scenario = "group" /\ pc = "grouped") =>
        /\ Len(grouped_type2)
               = Cardinality({ Signature(BlockRulesGiven[k]) :
                                 k \in DOMAIN BlockRulesGiven })
        /\ \A g \in DOMAIN grouped_type2 :
              \A i \in 0..(CoercedLinesPerRecord(grouped_type2[g]) - 1) :
                  LET got == RangesAt(grouped_type2[g], i)
                      members == { k \in DOMAIN BlockRulesGiven :
                                     Signature(BlockRulesGiven[k])
                                         = Signature(grouped_type2[g]) }
                  IN  /\ Covered(got)
                             = UNION { Covered(RangesAt(BlockRulesGiven[k], i)) :
                                       k \in members }
                      /\ \A k \in 1..(Len(got) - 1) :
                             got[k].end + 1 < got[k + 1].start

\* The rule list with linesPerRecord of every block rule as the
\* specification takes it.
CoercedRules(rs) ==
    [k \in DOMAIN rs |->
        IF rs[k].type = "type2"
        THEN [rs[k] EXCEPT !.linesPerRecord = CoercedLinesPerRecord(rs[k])]
        ELSE rs[k]]

\* Some block rule of the configuration has linesPerRecord below 1.
HasLowLinesPerRecord ==
    \E k \in DOMAIN rules : rules[k].type = "type2" /\ rules[k].linesPerRecord < 1

\* C17: linesPerRecord coercion.  A file processed under a configuration with
\* a block rule whose linesPerRecord is below 1 does not fail where the same
\* configuration with linesPerRecord 1 succeeds, and is saved with the lines
\* and the count that configuration gives, on every execution path.
C17_LinesPerRecordCoercion ==
    (scenario = "file" /\ HasLowLinesPerRecord) =>
        LET asOne == ProcessFile(path, CoercedRules(rules), skipLines, inputLines)
        IN  /\ pc = "failed" => ~asOne.ok
            /\ pc = "saved" =>
                  /\ asOne.ok
                  /\ workLines = asOne.lines
                  /\ file_masked_count = asOne.count

\* The entries of the pass log that are the single-line pass.
Type1Entries == { k \in DOMAIN passLog : passLog[k].pass = "type1" }

\* C18: header exemption.  On every execution path the single-line pass
\* writes each of the first skipLines lines of the file as it read it, and
\* every later line as the pass of that path writes it when no line is
\* exempted.
C18_HeaderExemption ==
    scenario = "file" =>
        \A k \in Type1Entries :
            LET unexempted == Type1PassOf(path, rules, 0, passLog[k].read).lines
            IN  \A i \in DOMAIN passLog[k].read :
                    passLog[k].wrote[i] = IF i <= skipLines
                                          THEN passLog[k].read[i]
                                          ELSE unexempted[i]

\* The ranges of the single-line rules with an empty anchor.
AlwaysApplyRanges ==
    BuildCombinedType1Regex(SelectSeq(rules, LAMBDA r : r.type = "type1")).always

\* C19: always-apply rules.  On every execution path the single-line pass
\* masks, in every line after the first skipLines lines, every character that
\* is not a blank at a position of the ranges of the rules with an empty
\* anchor (mask mode star: the character is written as "*").
C19_AlwaysApply ==
    (scenario = "file" /\ MASK_MODE = "star") =>
        \A k \in Type1Entries :
            \A i \in DOMAIN passLog[k].read :
                i > skipLines =>
                    \A o \in Selected(passLog[k].read[i], AlwaysApplyRanges) :
                        passLog[k].wrote[i][o + 1] = "*"

\* The run is over: main returned or an exception left it.
RunOver == scenario = "batch" /\ pc \in {"finished", "crashed"}

\* C20: failure isolation.  When the run is over and the processing of some
\* input file raised, every file whose processing raised is reported as an
\* error and not as a success, and every other input file is reported as a
\* success and has its output written, in the sequential loops and in the
\* worker pool.
C20_FailureIsolation ==
    (RunOver /\ \E i \in DOMAIN faults : faults[i] # "none") =>
        \A i \in DOMAIN faults :
            IF faults[i] # "none"
            THEN reports[i] = {"ERROR"}
            ELSE "SUCCESS" \in reports[i] /\ outputs[i]

\* ---------------------------------------------------- claims on the passes

BlockDone == scenario = "block" /\ pc = "done"

\* C2: strategy equivalence.  For the same input lines and the same rule the
\* buffered scanner and the streaming scanner give the same output lines.
C2_StrategyEquivalence == BlockDone => written = bufLines

\* The anchors of the block rule, compiled.
RuleStartRegex ==
    CreateAnchorRegex(blockRule.anchorStart, blockRule.useRawRegexStart,
                      ~blockRule.caseSensitive)
RuleEndRegex ==
    CreateAnchorRegex(blockRule.anchorEnd, blockRule.useRawRegexEnd,
                      ~blockRule.caseSensitive)

\* The records of the input, paired left to right from index cur on: a record
\* starts at the first start-anchor line at or after cur and ends at the first
\* end-anchor line after it; the next record is looked for after that line.
RECURSIVE RecordsFrom(_)
RecordsFrom(cur) ==
    LET s == FirstMatch(RuleStartRegex, inputLines, cur)
        e == FirstMatch(RuleEndRegex, inputLines, s + 1)
    IN  IF cur >= Len(inputLines) \/ s = -1 \/ e = -1 THEN << >>
        ELSE << [s |-> s, e |-> e] >> \o RecordsFrom(e + 1)

\* The index of the start-anchor line of the record that no end anchor
\* closes, or -1 when every record is closed.
RECURSIVE OpenRecordFrom(_)
OpenRecordFrom(cur) ==
    LET s == FirstMatch(RuleStartRegex, inputLines, cur)
        e == FirstMatch(RuleEndRegex, inputLines, s + 1)
    IN  IF cur >= Len(inputLines) \/ s = -1 THEN -1
        ELSE IF e = -1 THEN s
        ELSE OpenRecordFrom(e + 1)

\* The Line Masker result for the line at index i as the body line at body
\* offset k.
MaskedForm(i, k) ==
    ApplyMaskingToLine(inputLines[i + 1],
        ParseCharRanges(blockRule.positionsString[(k % blockRule.linesPerRecord) + 1]))[1]

\* The output the claim describes for input whose records are all closed.
ExpectedTerminated ==
    LET recs == RecordsFrom(0)
    IN  [i1 \in 1..Len(inputLines) |->
            LET i == i1 - 1
                inBody(r) == /\ recs[r].s + blockRule.skipStart < i
                             /\ i < recs[r].e - blockRule.skipEnd
            IN  IF \E r \in DOMAIN recs : inBody(r)
                THEN LET r == CHOOSE x \in DOMAIN recs : inBody(x)
                     IN  MaskedForm(i, i - (recs[r].s + blockRule.skipStart + 1))
                ELSE inputLines[i1]]

\* Every record is closed and holds its two skip windows side by side.
RecordsWellFormed ==
    /\ OpenRecordFrom(0) = -1
    /\ \A r \in DOMAIN RecordsFrom(0) :
          RecordsFrom(0)[r].e - RecordsFrom(0)[r].s - 1
              >= blockRule.skipStart + blockRule.skipEnd

\* C3: block pass over terminated records.  In the buffered and in the
\* streaming scanner the lines outside a record, the anchor lines and the two
\* skip windows are emitted unchanged, and the body line at body offset k is
\* emitted as the Line Masker result for relative line k mod linesPerRecord.
\* Stated for input whose records hold both skip windows, where the pairing
\* of the records is not in question.
C3_TerminatedRecords ==
    (BlockDone /\ RecordsWellFormed) =>
        /\ bufLines = ExpectedTerminated
        /\ written = ExpectedTerminated

\* C4: unterminated block.  When a start anchor is matched and no end anchor
\* follows, every line after the skipStart window up to the last line is
\* emitted in masked form by both strategies, and no line is dropped.
C4_UnterminatedMasked ==
    (BlockDone /\ OpenRecordFrom(0) # -1) =>
        LET first == OpenRecordFrom(0) + blockRule.skipStart + 1
        IN  /\ Len(bufLines) = Len(inputLines)
            /\ Len(written) = Len(inputLines)
            /\ \A i \in first..(Len(inputLines) - 1) :
                  /\ bufLines[i + 1] = MaskedForm(i, i - first)
                  /\ written[i + 1] = MaskedForm(i, i - first)

Type1Done == scenario = "type1" /\ pc = "done"

\* A rule's anchor as create_anchor_regex compiles it on its own.
OwnRegex(rule) ==
    CreateAnchorRegex(rule.anchor, rule.useRawRegex, ~rule.caseSensitive)

\* The offsets the ranges of a rule cover.
RuleOffsets(rule) ==
    UNION { ParseCharRanges(rule.positionsString)[k].start
              .. ParseCharRanges(rule.positionsString)[k].end :
            k \in DOMAIN ParseCharRanges(rule.positionsString) }

\* Two rules with disjoint anchors and ranges, in the widest sense: neither
\* anchor is empty, no offset is in the ranges of both, and no line of the
\* input is matched by both anchors, neither as it is read nor as the first
\* rule leaves it.
IndependentRules ==
    /\ Len(rules) = 2
    /\ ~IsBlank(rules[1].anchor) /\ ~IsBlank(rules[2].anchor)
    /\ RuleOffsets(rules[1]) \cap RuleOffsets(rules[2]) = {}
    /\ \A k \in DOMAIN inputLines :
          Search(OwnRegex(rules[1]), inputLines[k]) =>
              /\ ~Search(OwnRegex(rules[2]), inputLines[k])
              /\ ~Search(OwnRegex(rules[2]),
                         ApplyType1ToLine(inputLines[k], rules[1])[1])

\* C5: aggregation equivalence.  For two single-line rules with disjoint
\* anchors and ranges, applying them one by one and applying them through the
\* combined aggregator give the same lines and the same total count.
C5_AggregationEquivalence ==
    (Type1Done /\ skipLines = 0 /\ IndependentRules) =>
        /\ aggLines = seqLines
        /\ aggCount = seqCount

\* The rules of the configuration without those whose raw pattern does not
\* compile.
RulesThatCompile ==
    SelectSeq(rules, LAMBDA r : ~(r.useRawRegex /\ ~RawCompiles(r.anchor)))

\* C14: a malformed raw-regex anchor is a no-op.  With a rule whose raw
\* pattern does not compile in the configuration, the rules one by one and
\* the aggregated pass both run to their end and give the lines they give
\* for the configuration without that rule.
C14_MalformedRawIsNoOp ==
    (scenario = "type1" /\ Len(RulesThatCompile) < Len(rules)) =>
        /\ pc # "failed"
        /\ pc = "done" =>
              LET combined == BuildCombinedType1Regex(RulesThatCompile)
              IN  aggLines = [i \in 1..Len(inputLines) |->
                      AggregatedLine(combined, inputLines[i], i - 1, skipLines)[1]]

\* The ranges the claim hands to the Line Masker for a line: those of every
\* rule with ranges whose anchor, compiled on its own, matches the line, and
\* those of every rule with an empty anchor.
UnionOfMatchingRanges(ln) ==
    UNION { { ParseCharRanges(rules[r].positionsString)[k] :
                k \in DOMAIN ParseCharRanges(rules[r].positionsString) } :
            r \in { x \in DOMAIN rules :
                      \/ IsBlank(rules[x].anchor)
                      \/ Search(OwnRegex(rules[x]), ln) } }

\* No anchor of the configuration holds '|'.
NoAlternatives ==
    \A r \in DOMAIN rules :
        \A i \in DOMAIN rules[r].anchor : rules[r].anchor[i] # "|"

\* C6: aggregated single-line pass.  For every line that skipLines does not
\* exempt, the ranges handed to the Line Masker are the union of the ranges
\* of every rule whose anchor matches the line, plus the always-apply ranges,
\* and the Line Masker is called once.  Stated for configurations without
\* '|' in an anchor.
C6_RangesAreUnion ==
    (Type1Done /\ NoAlternatives) =>
        \A k \in DOMAIN inputLines :
            k - 1 >= skipLines =>
                /\ { aggRanges[k][j] : j \in DOMAIN aggRanges[k] }
                       = UnionOfMatchingRanges(inputLines[k])
                /\ aggCalls[k] <= 1
                /\ aggRanges[k] # << >> => aggCalls[k] = 1

\* ------------------------------------------- claims on the block scanners

\* The form in which the streaming scanner holds the line it read last: the
\* newest entry of the trailing buffer, or the last line written when the
\* buffer is empty.
LastStreamedForm ==
    IF tail_buffer # << >> THEN tail_buffer[Len(tail_buffer)].masked
    ELSE written[Len(written)]

\* C24: skip-start window.  Streaming scanner: when it enters MASKING it has
\* consumed exactly skipStart lines since the start anchor, each written as
\* read, and the first line it takes in MASKING is masked with the ranges of
\* relative line index 0.  Buffered scanner: in the first record the
\* skipStart lines after the start anchor are returned unchanged and the line
\* after them, when it lies before the trailing window, is masked with the
\* ranges of relative line index 0.
C24_SkipStartWindow ==
    scenario = "block" =>
        /\ (pc = "streaming" /\ state = "in_mask" /\ relative_idx = 0) =>
              /\ skip_counter = blockRule.skipStart
              /\ \A k \in (readPos - skip_counter + 1)..readPos :
                    written[k] = inputLines[k]
        /\ (pc = "streaming" /\ state = "in_mask" /\ relative_idx = 1) =>
              LastStreamedForm = MaskedForm(readPos - 1, 0)
        /\ (pc # "ready" /\ RecordsFrom(0) # << >>) =>
              LET rec == RecordsFrom(0)[1]
                  first == rec.s + blockRule.skipStart + 1
              IN  /\ \A i \in (rec.s + 1)..(first - 1) :
                        i < rec.e => bufLines[i + 1] = inputLines[i + 1]
                  /\ first < rec.e - blockRule.skipEnd =>
                        bufLines[first + 1] = MaskedForm(first, 0)

\* The streaming scanner is between two lines, or past the last one.
Streaming == scenario = "block" /\ pc \in {"streaming", "done"}

\* The lines of the trailing buffer, in the order they entered, in one form.
BufferedOrig == [k \in 1..Len(tail_buffer) |-> tail_buffer[k].orig]
BufferedMasked == [k \in 1..Len(tail_buffer) |-> tail_buffer[k].masked]

\* Between two lines: the buffer holds at most skipEnd lines and none outside
\* MASKING; it holds the lines read last, oldest first, after the lines
\* written; and each entry pairs a line with its masked form.
BufferBounded ==
    Streaming =>
        /\ Len(tail_buffer) <= blockRule.skipEnd
        /\ state # "in_mask" => tail_buffer = << >>
        /\ Len(written) + Len(tail_buffer) = readPos
        /\ \A k \in DOMAIN tail_buffer :
              LET i == Len(written) + k - 1
                  rel == relative_idx - Len(tail_buffer) + k - 1
              IN  /\ tail_buffer[k].orig = inputLines[i + 1]
                  /\ tail_buffer[k].masked = MaskedForm(i, rel)

\* One step of the scanner: at an end anchor the whole buffer is written in
\* original form, oldest first, before the anchor line; at end of input in
\* MASKING the whole buffer is written in masked form, oldest first; when a
\* body line overflows a buffer that holds lines, the oldest is written in
\* masked form and the others stay in order.
BufferLeavesInOrder ==
    (scenario = "block" /\ pc = "streaming") =>
        /\ (state = "in_mask" /\ state' = "outside") =>
              /\ written' = written \o BufferedOrig \o << inputLines[readPos'] >>
              /\ tail_buffer' = << >>
        /\ (pc' = "done" /\ state = "in_mask") =>
              /\ written' = written \o BufferedMasked
              /\ tail_buffer' = << >>
        /\ (pc' = "streaming" /\ state = "in_mask" /\ state' = "in_mask"
                /\ tail_buffer # << >> /\ written' # written) =>
              /\ written' = Append(written, Head(tail_buffer).masked)
              /\ SubSeq(tail_buffer', 1, Len(tail_buffer') - 1) = Tail(tail_buffer)

MaskedForms(ln) ==
    { ApplyMaskingToLine(ln, MultiLinePositions(blockRule)[k])[1] :
        k \in DOMAIN blockRule.positionsString }

\* C26: line preservation in the streaming block scanner.  When the input
\* has ended, in whatever state, the lines written are as many as the lines
\* read, and the i-th line written is the i-th line read or a masked form of
\* it, of the same length.
C26_LinePreservation ==
    BlockDone =>
        /\ Len(written) = Len(inputLines)
        /\ \A i \in DOMAIN written :
              /\ Len(written[i]) = Len(inputLines[i])
              /\ \/ written[i] = inputLines[i]
                 \/ written[i] \in MaskedForms(inputLines[i])

\* C26 witness: the input ended in MASKING with a line in the trailing
\* buffer, and a line was written in masked form.
C26_Witness ==
    /\ BlockDone /\ state = "in_mask"
    /\ blockRule.skipEnd >= 1 /\ relative_idx >= 1
    /\ \E i \in DOMAIN written : written[i] # inputLines[i]

\* The number of "*" in the lines lns.  No line of the input holds one, so
\* in star mode this is the sum of the Line Masker counts over the lines that
\* are in masked form.
StarsIn(lns) ==
    SumSeq([i \in 1..Len(lns) |->
               Cardinality({ o \in DOMAIN lns[i] : lns[i][o] = "*" })])

\* C27: count accuracy of a block pass.  In star mode the count each scanner
\* returns is the number of characters masked in the lines it emitted, the
\* lines emitted in original form adding nothing, and the two scanners return
\* the same count.
C27_CountAccuracy ==
    (BlockDone /\ MASK_MODE = "star") =>
        /\ bufCount = StarsIn(bufLines)
        /\ masked_total = StarsIn(written)
        /\ masked_total = bufCount

\* ------------------------------------- claims on the single-line aggregator

\* Whether the aggregated pass selects the line ln for the rule at index r:
\* the search of the combined pattern of the rule's bucket sets the rule's
\* named group.
AggregatedSelects(r, ln) ==
    LET combined == BuildCombinedType1Regex(rules)
        matched == MatchedGroups(combined.icase, TRUE, ln)
                       \o MatchedGroups(combined.case, FALSE, ln)
    IN  \E k \in DOMAIN matched : matched[k].gname = r

\* The rules that take part in the combined patterns: those with an anchor
\* and with ranges.
AnchoredRules ==
    { r \in DOMAIN rules :
        /\ ~IsBlank(rules[r].anchor)
        /\ ParseCharRanges(rules[r].positionsString) # << >> }

\* C30: the aggregated pass against the anchors compiled alone.  For every
\* rule with an anchor and every line of the file, the aggregated pass
\* selects the line for the rule exactly when the pattern create_anchor_regex
\* compiles for the rule matches the line.
C30_AggregatedSelection ==
    Type1Done =>
        \A r \in AnchoredRules :
            \A k \in DOMAIN inputLines :
                AggregatedSelects(r, inputLines[k])
                    <=> Search(OwnRegex(rules[r]), inputLines[k])

\* ------------------------------------------------ claims on one run of main

\* No input file was read for masking and no output was written.
NoFileTouched ==
    /\ file_index = 0
    /\ pooled = {}
    /\ \A i \in DOMAIN faults :
          runs[i] = 0 /\ saves[i] = 0 /\ ~outputs[i] /\ reports[i] = {}

\* C21  Fatal configuration: when the rule configuration is missing,
\* unparsable or holds no rules, the run has ended with an error, no input
\* file has been read for masking and no output or temporary file has been
\* written.
C21_FatalConfiguration ==
    (scenario = "batch" /\ config \in {"missing", "unparsable", "no_rules"}) =>
        pc = "exited" /\ NoFileTouched

C21_Witness ==
    /\ scenario = "batch"
    /\ config = "no_rules"
    /\ pc = "exited"
    /\ Len(faults) = MaxFiles
    /\ jobs = 2

\* C22  The masking mode is an explicit parameter of every masking call and
\* never process-wide state: no step of a run stores the mode in the
\* module-level flag.
C22_ModeNeverGlobal == [][MASK_MODE' = MASK_MODE]_vars

\* Every step of the processing of every input file succeeds.
FaultFree == \A i \in DOMAIN faults : faults[i] = "none"

\* C28  Each file once: in a run in which no step fails, whatever the mode
\* and the number of jobs, no input file gets more than one masking run or
\* more than one output written, and at the final summary each file has had
\* exactly one of each and the grand total is the sum of the counts of the
\* files.
C28_EachFileOnce ==
    (scenario = "batch" /\ FaultFree) =>
        /\ \A i \in DOMAIN faults : runs[i] <= 1 /\ saves[i] <= 1
        /\ pc = "finished" =>
              /\ \A i \in DOMAIN faults : runs[i] = 1 /\ saves[i] = 1
              /\ grand_total_masked = SumSeq(masked_counts)

\* The count each pool task returns to main: its masked count with status
\* 0, and 0 with status 1.
TaskCounts ==
    [i \in DOMAIN faults |->
        IF PoolOutcome(faults[i]).status = 0 THEN masked_counts[i] ELSE 0]

\* C23  Worker pool accounting: when the files were processed by the pool,
\* whatever the order in which the tasks completed, the final masked total
\* is the sum of the counts the tasks returned and the processed-file
\* counter is the number of completed tasks.
C23_PoolAccounting ==
    (scenario = "batch" /\ pc = "finished" /\ pooled # {}) =>
        /\ grand_total_masked = SumSeq(TaskCounts)
        /\ processed_files = Cardinality(pooled)

\* Every input file was visited: by the file loop, or by the worker pool.
AllFilesVisited == file_index = Len(faults) \/ pooled = DOMAIN faults

\* C29  Run completion: once the configuration has loaded and when no step
\* on any file fails, for every mode, number of jobs, number of input files
\* and progress setting the run does not abort, and when it has reached its
\* final summary every input file was visited.
C29_RunCompletion ==
    (scenario = "batch" /\ config = "loaded" /\ FaultFree) =>
        /\ pc # "crashed"
        /\ pc = "finished" => AllFilesVisited

====
